---- MODULE Spec2Model ----
(***************************************************************************)
(* Caption discovery-and-parsing pipeline of summa-ai-insight.             *)
(*                                                                         *)
(* Two variants of the extract-youtube-transcript edge function are        *)
(* modelled: the player-API variant                                        *)
(* (supabase/functions/extract-youtube-transcript/index.ts:8-417) and the  *)
(* embedded-metadata variant (unnamed/part_001:334-571).                   *)
(*                                                                         *)
(* Strings whose characters the code inspects (references, language codes) *)
(* are sequences of one-character strings.  Caption texts are represented  *)
(* by their lengths, the only thing the pipeline looks at.                 *)
(*                                                                         *)
(* Specifications:                                                         *)
(*   Spec         one request through handler and pipeline                 *)
(*   SpecLive     Spec with an endpoint that may never respond, and weak   *)
(*                fairness of the request's steps                          *)
(*   SpecSelect   selectTrack on a track list and one reordering of it     *)
(*   SpecResolve  extractVideoId on one reference                          *)
(*   SpecParse    one parser on one payload, texts and time labels as      *)
(*                sequences of characters                                  *)
(*   SpecFormats  one parser on a serialization of given captions          *)
(*   SpecFair     Spec for one reference, every fetch completing           *)
(*   SpecCancel   Spec with a caller that may go away                      *)
(*   SpecReplay   two runs of Spec against one fixed upstream              *)
(*   SpecCaptions the get-youtube-captions handler                         *)
(*   SpecClient   the client's fetchYouTubeTranscript                      *)
(***************************************************************************)
EXTENDS Integers, Sequences, FiniteSets, TLC

\* ------------------------------------------------------------------ bounds
MaxTracks == 3
MaxListed == 2

\* ------------------------------------------------------- program constants
IdLength == 11
MinContent == 50
MinRawLength == 50
MaxLanguages == 8

\* ----------------------------------------------------------- string helpers
StartsWithAt(s, lit, i) ==
  /\ i >= 1
  /\ i + Len(lit) - 1 <= Len(s)
  /\ \A k \in 1..Len(lit) : s[i + k - 1] = lit[k]

StartsWith(s, lit) == StartsWithAt(s, lit, 1)

Includes(s, lit) == \E i \in 1..(Len(s) + 1) : StartsWithAt(s, lit, i)

SetMin(S) == CHOOSE x \in S : \A y \in S : x <= y

SetMax(S) == CHOOSE x \in S : \A y \in S : x >= y

\* ------------------------------------------------------------- extractVideoId
LowerCase == {"a","b","c","d","e","f","g","h","i","j","k","l","m",
              "n","o","p","q","r","s","t","u","v","w","x","y","z"}
UpperCase == {"A","B","C","D","E","F","G","H","I","J","K","L","M",
              "N","O","P","Q","R","S","T","U","V","W","X","Y","Z"}
Digits == {"0","1","2","3","4","5","6","7","8","9"}

\* [a-zA-Z0-9_-]
IdAlphabet == LowerCase \cup UpperCase \cup Digits \cup {"_", "-"}

\* the class without the question mark
StopCharsNoQuery == {"&", "\n", "#"}

\* [^&\n?#] is every character except these
StopChars == {"&", "\n", "?", "#"}

WatchLiteral ==
  <<"y","o","u","t","u","b","e",".","c","o","m","/","w","a","t","c","h","?","v","=">>
ShortLiteral == <<"y","o","u","t","u",".","b","e","/">>
EmbedLiteral ==
  <<"y","o","u","t","u","b","e",".","c","o","m","/","e","m","b","e","d","/">>

UrlLiterals == {WatchLiteral, ShortLiteral, EmbedLiteral}

\* null and '' are both rejected by the handler's `!videoId`
NullId == <<>>

\* first pattern: leftmost literal followed by at least one non-stop
\* character; the capture is the longest run of non-stop characters
UrlPatternStarts(url) ==
  { i \in 1..Len(url) :
      \E lit \in UrlLiterals :
        /\ StartsWithAt(url, lit, i)
        /\ i + Len(lit) <= Len(url)
        /\ url[i + Len(lit)] \notin StopChars }

UrlPatternCapture(url) ==
  LET i == SetMin(UrlPatternStarts(url))
      lit == CHOOSE l \in UrlLiterals : StartsWithAt(url, l, i)
      s == i + Len(lit)
      e == SetMax({ j \in s..Len(url) :
                      \A k \in s..j : url[k] \notin StopChars })
  IN  SubSeq(url, s, e)

\* second pattern: ^([a-zA-Z0-9_-]{11})$
BareIdMatches(url) ==
  /\ Len(url) = IdLength
  /\ \A k \in 1..Len(url) : url[k] \in IdAlphabet

extractVideoId(url) ==
  IF UrlPatternStarts(url) # {} THEN UrlPatternCapture(url)
  ELSE IF BareIdMatches(url) THEN url
  ELSE NullId

\* ------------------------------------------------------------------ tracks
LangEn == <<"e","n">>
LangEnGB == <<"e","n","-","G","B">>
LangFr == <<"f","r">>
LangMen == <<"m","e","n">>
LangDe == <<"d","e">>
VssAutoEn == <<"a",".","e","n">>
VssFr == <<".","f","r">>
DotEn == <<".","e","n">>
NoCode == <<>>

NoUrl == [present |-> FALSE, hasQuery |-> FALSE, tlang |-> "", fmt |-> ""]
PlainUrl == [present |-> TRUE, hasQuery |-> TRUE, tlang |-> "", fmt |-> ""]
TranslatedUrl == [present |-> TRUE, hasQuery |-> TRUE, tlang |-> "en", fmt |-> ""]
Json3Url == [present |-> TRUE, hasQuery |-> TRUE, tlang |-> "", fmt |-> "json3"]

Track(lc, vss, k, u) ==
  [languageCode |-> lc, vssId |-> vss, kind |-> k, baseUrl |-> u]

NoTrack == Track(NoCode, NoCode, "none", NoUrl)

TrackSet ==
  { Track(LangEn, NoCode, "asr", PlainUrl),
    Track(LangEnGB, NoCode, "", Json3Url),
    Track(NoCode, VssAutoEn, "asr", PlainUrl),
    Track(LangFr, VssFr, "asr", PlainUrl),
    Track(LangFr, NoCode, "", TranslatedUrl),
    Track(LangMen, NoCode, "asr", PlainUrl),
    Track(LangDe, NoCode, "", NoUrl),
    Track(NoCode, VssFr, "", PlainUrl) }

SeqsUpTo(S, n) == UNION { [1..k -> S] : k \in 0..n }

TrackLists == SeqsUpTo(TrackSet, MaxTracks)

\* t.languageCode || t.vssId
CodeOf(t) == IF t.languageCode # NoCode THEN t.languageCode ELSE t.vssId

isEn(code) ==
  /\ code # NoCode
  /\ \/ code = LangEn
     \/ StartsWith(code, LangEn)
     \/ Includes(code, DotEn)

\* Array.prototype.find: the first element satisfying the test, given the
\* positions that satisfy it
FindFirst(ts, hits) == IF hits = {} THEN NoTrack ELSE ts[SetMin(hits)]

EnglishASRAt(ts) ==
  { i \in 1..Len(ts) : isEn(CodeOf(ts[i])) /\ ts[i].kind = "asr" }

EnglishManualAt(ts) ==
  { i \in 1..Len(ts) : isEn(CodeOf(ts[i])) /\ ts[i].kind # "asr" }

AnyASRAt(ts) == { i \in 1..Len(ts) : ts[i].kind = "asr" }

\* selectTrack with the English manual track preferred to the English ASR one
selectTrackManualFirst(ts) ==
  LET englishASR == FindFirst(ts, EnglishASRAt(ts))
      englishManual == FindFirst(ts, EnglishManualAt(ts))
      anyASR == FindFirst(ts, AnyASRAt(ts))
  IN  IF englishManual # NoTrack THEN englishManual
      ELSE IF englishASR # NoTrack THEN englishASR
      ELSE IF anyASR # NoTrack THEN anyASR
      ELSE ts[1]

\* selectTrack without the any-language ASR step
selectTrackNoAnyASR(ts) ==
  LET englishASR == FindFirst(ts, EnglishASRAt(ts))
      englishManual == FindFirst(ts, EnglishManualAt(ts))
  IN  IF englishASR # NoTrack THEN englishASR
      ELSE IF englishManual # NoTrack THEN englishManual
      ELSE ts[1]

\* englishASR || englishManual || anyASR || tracks[0]
selectTrack(ts) ==
  LET englishASR == FindFirst(ts, EnglishASRAt(ts))
      englishManual == FindFirst(ts, EnglishManualAt(ts))
      anyASR == FindFirst(ts, AnyASRAt(ts))
  IN  IF englishASR # NoTrack THEN englishASR
      ELSE IF englishManual # NoTrack THEN englishManual
      ELSE IF anyASR # NoTrack THEN anyASR
      ELSE ts[1]

\* ---------------------------------------------------------- caption URL
\* const isEnglish = langCode.includes('en')
LooksEnglish(langCode) == Includes(langCode, LangEn)

\* !isEnglish && !/([?&])tlang=/.test(captionUrl)
AddsTlang(langCode, u) == ~LooksEnglish(langCode) /\ u.tlang = ""

\* the URL requested for the chosen track: tlang=en and fmt=srv3 appended
CaptionUrlOf(t) ==
  [present |-> TRUE,
   hasQuery |-> TRUE,
   tlang |-> IF AddsTlang(CodeOf(t), t.baseUrl) THEN "en" ELSE t.baseUrl.tlang,
   fmt |-> IF t.baseUrl.fmt = "" THEN "srv3" ELSE t.baseUrl.fmt]

\* captionUrl.replace(/([?&])fmt=[^&]*/, '$1fmt=vtt'); fmt= is always present
VttUrlOf(u) == [u EXCEPT !.fmt = "vtt"]

\* ------------------------------------------------------------- payloads
\* A payload is described by what the sniffing tests see (startsVtt:
\* startsWith('WEBVTT'), hasEvents: includes('"events"'), hasTranscript:
\* includes('<transcript'), hasText: includes('<text')), its length, the
\* format its records are written in, and per record the length of its
\* text after normalization: n > 0 is a text of n characters, 0 an empty
\* text, -1 a text of white space only.
Payload(sv, he, htr, htx, n, f, sg) ==
  [startsVtt |-> sv, hasEvents |-> he, hasTranscript |-> htr, hasText |-> htx,
   rawLen |-> n, fmt |-> f, segs |-> sg]

EmptyBody == Payload(FALSE, FALSE, FALSE, FALSE, 0, "none", <<>>)

Payloads ==
  { EmptyBody,
    Payload(FALSE, FALSE, FALSE, FALSE, 500, "none", <<>>),
    Payload(FALSE, FALSE, TRUE, TRUE, 200, "xml", <<25, 25>>),
    Payload(FALSE, FALSE, TRUE, TRUE, 120, "xml", <<50>>),
    Payload(FALSE, FALSE, TRUE, TRUE, 45, "xml", <<10, 0>>),
    Payload(FALSE, FALSE, FALSE, TRUE, 200, "xml", <<51>>),
    Payload(FALSE, TRUE, FALSE, FALSE, 300, "json", <<30, -1, 30>>),
    Payload(FALSE, TRUE, FALSE, FALSE, 90, "json", <<20, 0>>),
    Payload(TRUE, FALSE, FALSE, FALSE, 200, "vtt", <<60>>),
    Payload(TRUE, FALSE, FALSE, FALSE, 60, "vtt", <<5, -1>>) }

RECURSIVE SumSeq(_)
SumSeq(q) == IF q = <<>> THEN 0 ELSE Head(q) + SumSeq(Tail(q))

\* parts.join(' '): the lengths of the parts plus one space between them
JoinedLength(parts) ==
  IF parts = <<>> THEN 0 ELSE SumSeq(parts) + Len(parts) - 1

Transcript(parts) == [text |-> JoinedLength(parts), timeline |-> parts]

EmptyTranscript == [text |-> 0, timeline |-> <<>>]

NonEmpty(n) == n > 0

KeepBlank(n) == IF n < 0 THEN 0 ELSE n

\* `if (text)` after trim(): empty and blank records are dropped
parseXmlTranscript(p) ==
  IF ~p.hasText THEN EmptyTranscript
  ELSE IF p.fmt # "xml" THEN EmptyTranscript
  ELSE Transcript(SelectSeq(p.segs, NonEmpty))

\* `if (seg.utf8)` skips an empty segment; a blank one is pushed trimmed,
\* so its event stays with an empty text
parseJson3Transcript(p) ==
  IF p.fmt # "json" \/ ~p.hasEvents THEN EmptyTranscript
  ELSE LET kept == SelectSeq(p.segs, LAMBDA n : n # 0)
       IN  Transcript([i \in 1..Len(kept) |-> KeepBlank(kept[i])])

parseVttTranscript(p) ==
  IF ~p.startsVtt THEN EmptyTranscript
  ELSE IF p.fmt # "vtt" THEN EmptyTranscript
  ELSE Transcript(SelectSeq(p.segs, NonEmpty))

\* part_001: returns the joined text only, and only for a <transcript> body
parseTranscriptXml(p) ==
  IF ~p.hasTranscript THEN EmptyTranscript
  ELSE IF p.fmt # "xml" THEN EmptyTranscript
  ELSE [text |-> JoinedLength(SelectSeq(p.segs, NonEmpty)), timeline |-> <<>>]

\* format dispatch of the player-API and listed-track payloads
DispatchParse(p) ==
  IF p.startsVtt THEN parseVttTranscript(p)
  ELSE IF p.hasEvents THEN parseJson3Transcript(p)
  ELSE parseXmlTranscript(p)

\* format dispatch of the direct attempts: `let result` stays undefined
\* unless one signature matches, and the body must be longer than 50
AttemptParse(p) ==
  IF ~(p.rawLen > MinRawLength) THEN EmptyTranscript
  ELSE IF p.startsVtt THEN parseVttTranscript(p)
  ELSE IF p.hasEvents THEN parseJson3Transcript(p)
  ELSE IF p.hasTranscript THEN parseXmlTranscript(p)
  ELSE EmptyTranscript

\* result.text.length > 50
Accepted(r) == r.text > MinContent

\* part_001: `if (parsed)`, any non-empty text
AcceptedEmbedded(r) == r.text > 0

\* ---------------------------------------------- parsers, at text level
\* The pipeline above needs only the length of a caption text.  The
\* operators below compute what the parsers return for a payload: texts
\* and time labels are sequences of characters, a timed-XML payload is its
\* sequence of elements, an event-JSON payload is what JSON.parse gives,
\* a cue-VTT payload is its sequence of lines.

\* records of one payload
MaxRecords == 2

Whitespace == {" ", "\n", "\t", "\r"}

RECURSIVE TrimStart(_)
TrimStart(s) ==
  IF s # <<>> /\ Head(s) \in Whitespace THEN TrimStart(Tail(s)) ELSE s

RECURSIVE TrimEnd(_)
TrimEnd(s) ==
  IF s # <<>> /\ s[Len(s)] \in Whitespace
  THEN TrimEnd(SubSeq(s, 1, Len(s) - 1))
  ELSE s

Trim(s) == TrimEnd(TrimStart(s))

\* s.replace(/lit/g, rep)
RECURSIVE ReplaceAll(_, _, _)
ReplaceAll(s, lit, rep) ==
  IF s = <<>> THEN <<>>
  ELSE IF StartsWithAt(s, lit, 1)
  THEN rep \o ReplaceAll(SubSeq(s, Len(lit) + 1, Len(s)), lit, rep)
  ELSE <<Head(s)>> \o ReplaceAll(Tail(s), lit, rep)

\* s.replace(/<[^>]*>/g, '')
RECURSIVE StripTags(_)
StripTags(s) ==
  IF s = <<>> THEN <<>>
  ELSE IF Head(s) = "<" /\ \E j \in 2..Len(s) : s[j] = ">"
  THEN StripTags(SubSeq(s, SetMin({ j \in 2..Len(s) : s[j] = ">" }) + 1,
                        Len(s)))
  ELSE <<Head(s)>> \o StripTags(Tail(s))

\* the five replacements both XML parsers make, in their order
DecodeEntities(s) ==
  ReplaceAll(
    ReplaceAll(
      ReplaceAll(
        ReplaceAll(
          ReplaceAll(s, <<"&","a","m","p",";">>, <<"&">>),
          <<"&","l","t",";">>, <<"<">>),
        <<"&","g","t",";">>, <<">">>),
      <<"&","q","u","o","t",";">>, <<"\"">>),
    <<"&","#","3","9",";">>, <<"'">>)

DecodeApos(s) == ReplaceAll(s, <<"&","a","p","o","s",";">>, <<"'">>)

\* parts.join(sep)
RECURSIVE JoinWith(_, _)
JoinWith(parts, sep) ==
  IF parts = <<>> THEN <<>>
  ELSE IF Len(parts) = 1 THEN parts[1]
  ELSE parts[1] \o sep \o JoinWith(Tail(parts), sep)

\* t.split(c)
RECURSIVE Split(_, _)
Split(s, c) ==
  IF \E i \in 1..Len(s) : s[i] = c
  THEN LET i == SetMin({ k \in 1..Len(s) : s[k] = c })
       IN  <<SubSeq(s, 1, i - 1)>> \o Split(SubSeq(s, i + 1, Len(s)), c)
  ELSE <<s>>

\* ------------------------------------------------------------- numbers
DigitChars == <<"0","1","2","3","4","5","6","7","8","9">>

DigitValue(c) == CHOOSE d \in 0..9 : DigitChars[d + 1] = c

\* Number.prototype.toString of a natural number
RECURSIVE NumberToString(_)
NumberToString(n) ==
  IF n < 10 THEN <<DigitChars[n + 1]>>
  ELSE NumberToString(n \div 10) \o <<DigitChars[(n % 10) + 1]>>

\* s.padStart(2, '0')
PadStart2(s) ==
  IF Len(s) >= 2 THEN s
  ELSE IF Len(s) = 1 THEN <<"0">> \o s
  ELSE <<"0", "0">>

RECURSIVE ParseDigits(_)
ParseDigits(s) ==
  IF s = <<>> THEN 0
  ELSE 10 * ParseDigits(SubSeq(s, 1, Len(s) - 1)) + DigitValue(s[Len(s)])

LeadingDigits(s) ==
  SubSeq(s, 1, SetMax({0} \cup { n \in 1..Len(s) :
                                   \A k \in 1..n : s[k] \in Digits }))

\* parseInt(s, 10) of a string that starts with a digit
parseInt(s) == ParseDigits(LeadingDigits(s))

\* parseFloat(s) of an unsigned decimal string, in thousandths
parseFloat(s) ==
  LET int == LeadingDigits(s)
      rest == SubSeq(s, Len(int) + 1, Len(s))
      frac == IF rest # <<>> /\ Head(rest) = "."
              THEN LeadingDigits(Tail(rest))
              ELSE <<>>
      milli == SubSeq(frac \o <<"0","0","0">>, 1, 3)
  IN  ParseDigits(int) * 1000 + ParseDigits(milli)

\* the label parseXmlTranscript and parseJson3Transcript render for an
\* offset of ms thousandths of a second
timeStr(ms) ==
  LET hours == ms \div 3600000
      mins == (ms % 3600000) \div 60000
      secs == (ms % 60000) \div 1000
  IN  IF hours > 0
      THEN NumberToString(hours) \o <<":">> \o PadStart2(NumberToString(mins))
             \o <<":">> \o PadStart2(NumberToString(secs))
      ELSE NumberToString(mins) \o <<":">> \o PadStart2(NumberToString(secs))

\* the label get-youtube-captions renders: minutes and seconds only
minutesTimeStr(ms) ==
  NumberToString(ms \div 60000) \o <<":">>
    \o PadStart2(NumberToString((ms % 60000) \div 1000))

\* the label parseVttTranscript renders from the cue's start timecode
toDisplay(t) ==
  LET segs == Split(t, ":")
  IN  IF Len(segs) = 3
      THEN NumberToString(parseInt(segs[1])) \o <<":">> \o PadStart2(segs[2])
             \o <<":">> \o PadStart2(NumberToString(parseFloat(segs[3]) \div 1000))
      ELSE NumberToString(parseInt(segs[1])) \o <<":">>
             \o PadStart2(NumberToString(parseFloat(segs[2]) \div 1000))

\* the offset a timecode denotes, in thousandths of a second
TimecodeMs(t) ==
  LET segs == Split(t, ":")
  IN  IF Len(segs) = 3
      THEN parseInt(segs[1]) * 3600000 + parseInt(segs[2]) * 60000
             + parseFloat(segs[3])
      ELSE parseInt(segs[1]) * 60000 + parseFloat(segs[2])

\* ------------------------------------------------------------ results
\* startMs is the offset the label was rendered from; the code's entry
\* has time and text only
Entry(t, x, ms) == [time |-> t, text |-> x, startMs |-> ms]

\* what one record of a payload contributes if it is kept
Candidate(k, t, x, ms) == [keep |-> k, entry |-> Entry(t, x, ms)]

\* parts.push(text) with the text pushed before the test that keeps it
RECURSIVE PartsOfAll(_)
PartsOfAll(cands) ==
  IF cands = <<>> THEN <<>>
  ELSE <<Head(cands).entry.text>> \o PartsOfAll(Tail(cands))

\* parts.push(text)
RECURSIVE PartsOf(_)
PartsOf(cands) ==
  IF cands = <<>> THEN <<>>
  ELSE (IF Head(cands).keep THEN <<Head(cands).entry.text>> ELSE <<>>)
         \o PartsOf(Tail(cands))

\* timeline.push({ time, text })
RECURSIVE TimelineOf(_)
TimelineOf(cands) ==
  IF cands = <<>> THEN <<>>
  ELSE (IF Head(cands).keep THEN <<Head(cands).entry>> ELSE <<>>)
         \o TimelineOf(Tail(cands))

Parsed(parts, timeline) ==
  [text |-> JoinWith(parts, <<" ">>), timeline |-> timeline, threw |-> FALSE]

EmptyParsed == [text |-> <<>>, timeline |-> <<>>, threw |-> FALSE]

\* the call ended with an exception instead of a value
Threw == [text |-> <<>>, timeline |-> <<>>, threw |-> TRUE]

\* ----------------------------------------------------------- payloads
Document(f, sh, el, ev, ln) ==
  [fmt |-> f, shape |-> sh, elems |-> el, events |-> ev, lines |-> ln]

NoDocument == Document("empty", "", <<>>, <<>>, <<>>)

\* an error page
HtmlDocument == Document("html", "", <<>>, <<>>, <<>>)

XmlElem(tg, hs, st, b) == [tag |-> tg, hasStart |-> hs, start |-> st, body |-> b]

\* "0", "65.5", "3725", "5"
XmlStarts == { <<"0">>, <<"6","5",".","5">>, <<"3","7","2","5">> }

\* a, b c, &lt;b&gt;
XmlBodies == { <<"a">>, <<"b"," ","c">>, <<"&","l","t",";","b","&","g","t",";">> }

XmlElems ==
  { XmlElem("text", TRUE, s, b) : s \in XmlStarts, b \in XmlBodies }
  \cup
  { XmlElem("text", TRUE, <<"6","5",".","5">>, <<" ">>),
    XmlElem("text", TRUE, <<"5">>, <<>>),
    XmlElem("text", TRUE, <<"0">>, <<"<","i",">","a","<","/","i",">">>),
    XmlElem("text", TRUE, <<"5">>, <<" ","a","&","a","m","p",";","b"," ">>),
    XmlElem("text", FALSE, <<>>, <<"a">>),
    XmlElem("p", TRUE, <<"5">>, <<"a">>) }

XmlDocuments ==
  { Document("xml", "", el, <<>>, <<>>) : el \in SeqsUpTo(XmlElems, MaxRecords) }

Event(k, hsg, hst, ms, sg) ==
  [kind |-> k, hasSegs |-> hsg, hasStart |-> hst, tStartMs |-> ms, segs |-> sg]

JsonStarts == { 0, 65500, 3725000 }

\* the utf8 values of an event's segs; <<>> is a seg without text
JsonSegs ==
  { << <<"a">> >>, << <<"b">>, <<" ","c">> >>, << <<"\n">> >> }

JsonEvents ==
  { Event("object", TRUE, TRUE, ms, sg) : ms \in JsonStarts, sg \in JsonSegs }
  \cup
  { Event("object", TRUE, TRUE, 5000, <<>>),
    Event("object", TRUE, TRUE, 5000, << <<>> >>),
    Event("object", FALSE, TRUE, 5000, <<>>),
    Event("object", TRUE, FALSE, 0, << <<"a">> >>),
    Event("null", FALSE, FALSE, 0, <<>>) }

\* shape: "malformed" is text JSON.parse rejects, "null" the document
\* null, "noEvents" an object without events, "notIterable" an object
\* whose events is an object, "events" an object with an events array
JsonDocuments ==
  { Document("json", sh, <<>>, <<>>, <<>>) :
      sh \in {"malformed", "null", "noEvents", "notIterable"} }
  \cup
  { Document("json", "events", <<>>, ev, <<>>) :
      ev \in SeqsUpTo(JsonEvents, MaxRecords) }

HeaderLine == <<"W","E","B","V","T","T">>
BlankLine == <<>>
ArrowText == <<" ","-","-",">"," ">>
\* "00:09:09.000"
EndTimecode == <<"0","0",":","0","9",":","0","9",".","0","0","0">>

TimingLine(start) == start \o ArrowText \o EndTimecode

\* "00:00:00.000", "00:01:05.500", "01:02:03.400", "01:05.500"
VttStarts ==
  { <<"0","0",":","0","0",":","0","0",".","0","0","0">>,
    <<"0","0",":","0","1",":","0","5",".","5","0","0">>,
    <<"0","1",":","0","2",":","0","3",".","4","0","0">>,
    <<"0","1",":","0","5",".","5","0","0">> }

\* the text lines of a cue
VttTexts ==
  { << <<"a">> >>, << <<"b">>, <<" ","c">> >>,
    << <<"<","c",">","a","<","/","c",">">> >> }

VttBlocks ==
  { <<TimingLine(s)>> \o x \o <<BlankLine>> : s \in VttStarts, x \in VttTexts }
  \cup
  { <<TimingLine(<<"0","0",":","0","5",".","0","0","0">>), BlankLine>>,
    <<TimingLine(<<"0","0",":","0","5",".","0","0","0">>),
      <<"<","c",">","<","/","c",">">>, <<" ">>>>,
    << <<"7">>, TimingLine(<<"0","0",":","0","5",".","0","0","0">>),
       <<"4","2">>, BlankLine>>,
    <<TimingLine(<<"0","0",":","0","5",".","0","0","0">>), <<"a">>>>,
    << <<"n","o","t","e">>, BlankLine>> }

RECURSIVE Flatten(_)
Flatten(blocks) ==
  IF blocks = <<>> THEN <<>> ELSE Head(blocks) \o Flatten(Tail(blocks))

VttDocuments ==
  { Document("vtt", "", <<>>, <<>>, h \o Flatten(bs)) :
      h \in { <<>>, <<HeaderLine, BlankLine>> },
      bs \in SeqsUpTo(VttBlocks, MaxRecords) }

Documents ==
  {NoDocument, HtmlDocument} \cup XmlDocuments \cup JsonDocuments
    \cup VttDocuments

\* ------------------------------------------------------ the four parsers
\* xml.includes('<text')
IncludesTextTag(doc) ==
  doc.fmt = "xml" /\ \E i \in 1..Len(doc.elems) : doc.elems[i].tag = "text"

\* an element /<text[^>]*start="([^"]*)"[^>]*>([\s\S]*?)<\/text>/ matches
XmlMatch(e) == e.tag = "text" /\ e.hasStart

XmlText(body) == Trim(StripTags(DecodeApos(DecodeEntities(body))))

RECURSIVE XmlCandidates(_)
XmlCandidates(elems) ==
  IF elems = <<>> THEN <<>>
  ELSE LET e == Head(elems)
           text == XmlText(e.body)
           seconds == parseFloat(e.start)
       IN  (IF XmlMatch(e)
            THEN <<Candidate(text # <<>>, timeStr(seconds), text, seconds)>>
            ELSE <<>>)
             \o XmlCandidates(Tail(elems))

\* parseXmlTranscript of extract-youtube-transcript
XmlTranscript(doc) ==
  IF doc.fmt = "empty" \/ ~IncludesTextTag(doc) THEN EmptyParsed
  ELSE LET cands == XmlCandidates(doc.elems)
       IN  Parsed(PartsOf(cands), TimelineOf(cands))

\* an element /<text[^>]*start="([^"]*)"[^>]*>([^<]*)<\/text>/ matches
CaptionsXmlMatch(e) ==
  /\ e.tag = "text"
  /\ e.hasStart
  /\ \A k \in 1..Len(e.body) : e.body[k] # "<"

RECURSIVE CaptionsXmlCandidates(_)
CaptionsXmlCandidates(elems) ==
  IF elems = <<>> THEN <<>>
  ELSE LET e == Head(elems)
           startSeconds == parseFloat(e.start)
       IN  (IF CaptionsXmlMatch(e)
            THEN <<Candidate(TRUE, minutesTimeStr(startSeconds),
                             Trim(DecodeEntities(e.body)), startSeconds)>>
            ELSE <<>>)
             \o CaptionsXmlCandidates(Tail(elems))

\* parseXmlTranscript of get-youtube-captions: every match is mapped to
\* an entry and the text is the entries' texts joined
CaptionsXmlTranscript(doc) ==
  LET timeline == TimelineOf(CaptionsXmlCandidates(doc.elems))
  IN  Parsed([i \in 1..Len(timeline) |-> timeline[i].text], timeline)

\* seg.utf8.trim() of every seg with a non-empty utf8
RECURSIVE EventText(_)
EventText(segs) ==
  IF segs = <<>> THEN <<>>
  ELSE (IF Head(segs) # <<>> THEN <<Trim(Head(segs))>> ELSE <<>>)
         \o EventText(Tail(segs))

RECURSIVE Json3Candidates(_)
Json3Candidates(events) ==
  IF events = <<>> THEN <<>>
  ELSE LET event == Head(events)
           eventText == EventText(event.segs)
       IN  (IF event.hasSegs /\ event.hasStart
            THEN <<Candidate(Len(eventText) > 0, timeStr(event.tStartMs),
                             JoinWith(eventText, <<>>), event.tStartMs)>>
            ELSE <<>>)
             \o Json3Candidates(Tail(events))

\* the try block of parseJson3Transcript: JSON.parse throws on text that
\* is not JSON, data.events on null, for..of on events that is not
\* iterable, event.segs on a null event
Json3Try(doc) ==
  IF doc.fmt # "json" \/ doc.shape \in {"malformed", "null", "notIterable"}
  THEN Threw
  ELSE IF doc.shape = "noEvents" THEN Parsed(<<>>, <<>>)
  ELSE IF \E i \in 1..Len(doc.events) : doc.events[i].kind = "null"
  THEN Threw
  ELSE LET cands == Json3Candidates(doc.events)
       IN  Parsed(PartsOf(cands), TimelineOf(cands))

\* parseJson3Transcript without its catch
Json3TranscriptNoCatch(doc) == Json3Try(doc)

\* parseJson3Transcript
Json3Transcript(doc) ==
  IF Json3Try(doc).threw THEN EmptyParsed ELSE Json3Try(doc)

\* /^\d+$/.test(line.trim())
NumericLine(line) ==
  /\ Trim(line) # <<>>
  /\ \A k \in 1..Len(Trim(line)) : Trim(line)[k] \in Digits

\* \d{2}:\d{2}:\d{2}\.\d{3} at position i
LongTimecodeAt(s, i) ==
  /\ i + 11 <= Len(s)
  /\ \A k \in {0, 1, 3, 4, 6, 7, 9, 10, 11} : s[i + k] \in Digits
  /\ s[i + 2] = ":" /\ s[i + 5] = ":" /\ s[i + 8] = "."

\* \d{2}:\d{2}\.\d{3} at position i
ShortTimecodeAt(s, i) ==
  /\ i + 8 <= Len(s)
  /\ \A k \in {0, 1, 3, 4, 6, 7, 8} : s[i + k] \in Digits
  /\ s[i + 2] = ":" /\ s[i + 5] = "."

TimecodeLen(s, i) ==
  IF LongTimecodeAt(s, i) THEN 12
  ELSE IF ShortTimecodeAt(s, i) THEN 9
  ELSE 0

\* timecode \s+-->\s+ timecode, starting at position i
TimeMatchAt(s, i) ==
  LET n == TimecodeLen(s, i)
  IN  /\ n > 0
      /\ \E a \in (i + n)..Len(s) :
           /\ \A k \in (i + n)..a : s[k] \in Whitespace
           /\ StartsWithAt(s, <<"-","-",">">>, a + 1)
           /\ \E b \in (a + 4)..Len(s) :
                /\ \A k \in (a + 4)..b : s[k] \in Whitespace
                /\ TimecodeLen(s, b + 1) > 0

\* timeMatch[1] of the leftmost match, <<>> if the line has none
TimeMatch(s) ==
  LET at == { i \in 1..Len(s) : TimeMatchAt(s, i) }
  IN  IF at = {} THEN <<>>
      ELSE SubSeq(s, SetMin(at), SetMin(at) + TimecodeLen(s, SetMin(at)) - 1)

\* a cue that ends after its first text line
CueEndOneLine(lines, i) ==
  IF i <= Len(lines) /\ Trim(lines[i]) # <<>> THEN i + 1 ELSE i

\* the index of the first blank line at or after i, Len(lines) + 1 if none
CueEnd(lines, i) ==
  SetMin({ k \in i..Len(lines) : Trim(lines[k]) = <<>> }
           \cup {Len(lines) + 1})

\* the loop of parseVttTranscript from line i on
RECURSIVE VttCandidates(_, _)
VttCandidates(lines, i) ==
  IF i > Len(lines) THEN <<>>
  ELSE IF NumericLine(lines[i]) THEN VttCandidates(lines, i + 1)
  ELSE IF TimeMatch(lines[i]) # <<>>
  THEN LET start == TimeMatch(lines[i])
           e == CueEnd(lines, i + 1)
           cueLines == [k \in 1..(e - i - 1) |-> Trim(lines[i + k])]
           text == Trim(StripTags(JoinWith(cueLines, <<" ">>)))
       IN  <<Candidate(text # <<>>, toDisplay(start), text,
                       TimecodeMs(start))>>
             \o VttCandidates(lines, e + 1)
  ELSE VttCandidates(lines, i + 1)

\* vtt.includes('WEBVTT')
IncludesHeader(doc) ==
  doc.fmt = "vtt"
    /\ \E i \in 1..Len(doc.lines) : Includes(doc.lines[i], HeaderLine)

\* parseVttTranscript
VttTranscript(doc) ==
  IF doc.fmt = "empty" \/ ~IncludesHeader(doc) THEN EmptyParsed
  ELSE LET cands == VttCandidates(doc.lines, 1)
       IN  Parsed(PartsOf(cands), TimelineOf(cands))

\* ------------------------------------------------------------- requests
Req(ep, v, lang, kind, fmt, tlang) ==
  [ep |-> ep, v |-> v, lang |-> lang, kind |-> kind, fmt |-> fmt, tlang |-> tlang]

NoReq == Req("none", NullId, NoCode, "", "", "")

Attempt(lang, kind, fmt, tlang) ==
  [lang |-> lang, kind |-> kind, fmt |-> fmt, tlang |-> tlang]

\* the table with an eleventh row
attemptsEleven ==
  << Attempt(LangEn, "asr", "srv3", ""),
     Attempt(LangEn, "asr", "json3", ""),
     Attempt(LangEn, "asr", "", ""),
     Attempt(LangEn, "", "srv3", ""),
     Attempt(LangEn, "", "json3", ""),
     Attempt(LangEn, "", "", ""),
     Attempt(LangEn, "", "vtt", ""),
     Attempt(LangEn, "asr", "vtt", ""),
     Attempt(NoCode, "asr", "srv3", "en"),
     Attempt(NoCode, "", "vtt", "en"),
     Attempt(NoCode, "", "srv3", "en") >>

attempts ==
  << Attempt(LangEn, "asr", "srv3", ""),
     Attempt(LangEn, "asr", "json3", ""),
     Attempt(LangEn, "asr", "", ""),
     Attempt(LangEn, "", "srv3", ""),
     Attempt(LangEn, "", "json3", ""),
     Attempt(LangEn, "", "", ""),
     Attempt(LangEn, "", "vtt", ""),
     Attempt(LangEn, "asr", "vtt", ""),
     Attempt(NoCode, "asr", "srv3", "en"),
     Attempt(NoCode, "", "vtt", "en") >>

directCandidates ==
  << Attempt(LangEn, "asr", "srv3", ""),
     Attempt(LangEn, "", "srv3", ""),
     Attempt(LangEn, "asr", "", ""),
     Attempt(LangEn, "", "", "") >>

\* the four variants tried for one listed language (part_001)
variants(lang) ==
  << Attempt(lang, "", "srv3", ""),
     Attempt(lang, "asr", "srv3", ""),
     Attempt(lang, "", "srv3", "en"),
     Attempt(lang, "asr", "srv3", "en") >>

\* <track ...> elements of the listing: lang_code (NoCode when the
\* attribute is missing) and kind
Listed(lang, kind) == [lang |-> lang, kind |-> kind]

ListedSet ==
  { Listed(LangEn, "asr"), Listed(LangFr, ""), Listed(LangMen, "asr"),
    Listed(NoCode, "asr") }

ListedLists == SeqsUpTo(ListedSet, MaxListed)

\* the next <track> from position j on that has a lang_code, 0 if none
NextListed(ls, j) ==
  LET rest == { k \in j..Len(ls) : ls[k].lang # NoCode }
  IN  IF rest = {} THEN 0 ELSE SetMin(rest)

\* if (!lang.startsWith('en')) params.set('tlang', 'en')
ListedTlang(lang) == IF StartsWith(lang, LangEn) THEN "" ELSE "en"

\* ---------------------------------------------------------------- messages
MsgInvalid == "Invalid YouTube URL"
MsgNoCaptions == "No captions available for this video"
MsgCouldNotFetch == "Could not fetch video transcript"
MsgNetwork == "fetch failed"
MsgBadJson == "Unexpected token"
MsgPageStatus == "Failed to fetch video page"
MsgNoCaptionUrl == "Caption URL not found"

\* ---------------------------------------------------------------- inputs
\* "https://www.youtube.com/watch?v=dQw4w9WgXcQ"
RefWatch ==
  <<"h","t","t","p","s",":","/","/","w","w","w",".","y","o","u","t","u","b","e",".","c","o","m","/","w","a","t","c","h","?","v","=","d","Q","w","4","w","9","W","g","X","c","Q">>
\* "https://youtu.be/dQw4w9WgXcQ?t=1"
RefShortLink ==
  <<"h","t","t","p","s",":","/","/","y","o","u","t","u",".","b","e","/","d","Q","w","4","w","9","W","g","X","c","Q","?","t","=","1">>
\* "dQw4w9WgXcQ"
RefBare ==
  <<"d","Q","w","4","w","9","W","g","X","c","Q">>
\* "https://youtu.be/abc"
RefShortId ==
  <<"h","t","t","p","s",":","/","/","y","o","u","t","u",".","b","e","/","a","b","c">>
\* "youtube.com/embed/dQw4w9WgXcQ/x"
RefEmbedPath ==
  <<"y","o","u","t","u","b","e",".","c","o","m","/","e","m","b","e","d","/","d","Q","w","4","w","9","W","g","X","c","Q","/","x">>
\* "not a url"
RefNoMatch ==
  <<"n","o","t"," ","a"," ","u","r","l">>
\* "https://youtu.be/"
RefNoCapture ==
  <<"h","t","t","p","s",":","/","/","y","o","u","t","u",".","b","e","/">>
\* "dQw4w9WgXc!"
RefBadBare ==
  <<"d","Q","w","4","w","9","W","g","X","c","!">>
RefEmpty == <<>>

Refs ==
  { RefWatch, RefShortLink, RefBare, RefShortId, RefEmbedPath, RefNoMatch, RefNoCapture, RefBadBare, RefEmpty }

\* what the watch page offers to the embedded-metadata extraction: the
\* ytInitialPlayerResponse assignment and the raw "captionTracks" array,
\* each absent, unparseable ("bad") or parsed ("ok") to a track list
Embedded(st, ts) == [state |-> st, tracks |-> ts]

EmbeddedAbsent == Embedded("absent", <<>>)

EmbeddedBad == Embedded("bad", <<>>)

Html(key, pr, ct) == [apiKey |-> key, playerResponse |-> pr, captionTracks |-> ct]

HtmlPages ==
  { Html(TRUE, Embedded("ok", ts), EmbeddedAbsent) : ts \in TrackLists }
  \cup { Html(TRUE, pr, Embedded("ok", ts)) :
           pr \in {EmbeddedAbsent, EmbeddedBad, Embedded("ok", <<>>)},
           ts \in TrackLists }
  \cup { Html(key, pr, ct) : key \in BOOLEAN,
           pr \in {EmbeddedAbsent, EmbeddedBad},
           ct \in {EmbeddedAbsent, EmbeddedBad} }

\* captionTracks after method 1 and method 2 (part_001:409-435)
ExtractTracks(html) ==
  LET fromResponse == IF html.playerResponse.state = "ok"
                      THEN html.playerResponse.tracks ELSE <<>>
  IN  IF fromResponse # <<>> THEN fromResponse
      ELSE IF html.captionTracks.state = "ok" THEN html.captionTracks.tracks
      ELSE <<>>

\* listXml.matchAll(/<track[^>]*lang_code="([^"]+)"[^>]*>/g), slice(0, 8)
LanguagesOf(ls) ==
  LET withCode == SelectSeq(ls, LAMBDA t : t.lang # NoCode)
  IN  SubSeq(withCode, 1, IF Len(withCode) < MaxLanguages
                          THEN Len(withCode) ELSE MaxLanguages)

\* ------------------------------------------------------------------ state
VARIABLES
  variant,      \* "player" (index.ts) or "embedded" (part_001)
  url,          \* the reference of the request
  pc,           \* position of the request in handler and pipeline
  videoId,
  inflight,     \* the upstream request being awaited, NoReq if none
  log,          \* the upstream requests issued, in order
  lastOutcome,  \* how the last awaited fetch ended
  strategies,   \* the strategies the run has entered
  tracks, chosen, captionUrl,
  idx,          \* index into attempts / directCandidates
  listed, lidx, vidx,
  outcome,      \* "running", "invalid", "accepted" or "failed"
  result,       \* the transcript fetchYouTubeTranscript returned
  thrown,       \* the error thrown inside the pipeline, "" if none
  response,     \* the handler's HTTP response
  perm, chosenPerm,
  raw,          \* the payload handed to a parser on its own
  parser,       \* the parser applied to it, "" before
  parsed,       \* what that parser returned
  cancelled,    \* the caller has gone away
  mock,         \* the upstream of a replayed run: a response per request
  first,        \* what the first of two runs issued and answered
  lang          \* the `lang` of a get-youtube-captions request

vars ==
  << variant, url, pc, videoId, inflight, log, lastOutcome, strategies,
     tracks, chosen, captionUrl, idx, listed, lidx, vidx,
     outcome, result, thrown, response, perm, chosenPerm,
     raw, parser, parsed, cancelled, mock, first, lang >>

\* what no step of a single request changes
aux == << cancelled, mock, first, lang >>

NoResponse ==
  [status |-> 0, error |-> "", transcript |-> 0, timeline |-> <<>>,
   hasTimeline |-> FALSE]

\* JSON.stringify({ transcript: transcript.text, timeline }) / ({ transcript })
SuccessResponse(r) ==
  [status |-> 200, error |-> "", transcript |-> r.text,
   timeline |-> r.timeline, hasTimeline |-> variant = "player"]

\* the error body sent without `status: 500`
ErrorResponseOk(msg) ==
  [status |-> 200, error |-> msg, transcript |-> 0, timeline |-> <<>>,
   hasTimeline |-> FALSE]

\* JSON.stringify({ error: error.message }), status 500
ErrorResponse(msg) ==
  [status |-> 500, error |-> msg, transcript |-> 0, timeline |-> <<>>,
   hasTimeline |-> FALSE]

\* the outer catch of fetchYouTubeTranscript rethrows one fixed message
OuterCatch(msg) == MsgCouldNotFetch

\* a fixed upstream: the response to the watch page, to the player API,
\* to the track listing, and to a caption request of each fmt
Mock(w, pl, li, tx) ==
  [on |-> TRUE, watch |-> w, player |-> pl, list |-> li, text |-> tx]

Answer(k, b) == [kind |-> k, body |-> b]

RequestFmts == {"", "srv3", "json3", "vtt"}

NoMock ==
  [on |-> FALSE,
   watch |-> Answer("threw", Html(FALSE, EmbeddedAbsent, EmbeddedAbsent)),
   player |-> Answer("threw", EmbeddedBad),
   list |-> Answer("threw", <<>>),
   text |-> [f \in RequestFmts |-> Answer("threw", EmptyBody)]]

Run(l, rsp, res, th) ==
  [on |-> TRUE, log |-> l, response |-> rsp, result |-> res, thrown |-> th]

NoRun ==
  [on |-> FALSE, log |-> <<>>, response |-> NoResponse,
   result |-> EmptyTranscript, thrown |-> ""]

AuxIdle ==
  /\ cancelled = FALSE
  /\ mock = NoMock
  /\ first = NoRun
  /\ lang = NoCode

\* a request as it enters the handler
Start ==
  /\ pc = "start"
  /\ videoId = NullId
  /\ inflight = NoReq
  /\ log = <<>>
  /\ lastOutcome = "none"
  /\ strategies = {}
  /\ tracks = <<>>
  /\ chosen = NoTrack
  /\ captionUrl = NoUrl
  /\ idx = 0
  /\ listed = <<>>
  /\ lidx = 0
  /\ vidx = 0
  /\ outcome = "running"
  /\ result = EmptyTranscript
  /\ thrown = ""
  /\ response = NoResponse
  /\ perm = <<>>
  /\ chosenPerm = NoTrack
  /\ raw = NoDocument
  /\ parser = ""
  /\ parsed = EmptyParsed

Init ==
  /\ variant \in {"player", "embedded"}
  /\ url \in Refs
  /\ Start
  /\ AuxIdle

\* ------------------------------------------------------- control helpers
Ctl(p, i, l, v) == pc' = p /\ idx' = i /\ lidx' = l /\ vidx' = v

Locals(ts, ch, cu, ls) ==
  tracks' = ts /\ chosen' = ch /\ captionUrl' = cu /\ listed' = ls

Running == UNCHANGED << outcome, result, thrown, response >>

\* Return that records the result but lets the loops go on
ReturnAndContinue(r) ==
  /\ Ctl(pc, idx, lidx, vidx)
  /\ outcome' = "accepted"
  /\ result' = r
  /\ thrown' = ""
  /\ response' = SuccessResponse(r)
  /\ UNCHANGED << tracks, chosen, captionUrl, listed, strategies >>

\* `return result` in fetchYouTubeTranscript, then the handler's response;
\* the track list of the player block goes out of scope
Return(r) ==
  /\ Ctl("done", idx, lidx, vidx)
  /\ outcome' = "accepted"
  /\ result' = r
  /\ thrown' = ""
  /\ response' = SuccessResponse(r)
  /\ tracks' = <<>>
  /\ UNCHANGED << chosen, captionUrl, listed, strategies >>

\* an error reaching the outer catch of fetchYouTubeTranscript, rethrown
\* to the handler's catch
Throw(msg) ==
  /\ Ctl("done", idx, lidx, vidx)
  /\ outcome' = "failed"
  /\ result' = EmptyTranscript
  /\ thrown' = msg
  /\ response' = ErrorResponse(OuterCatch(msg))
  /\ tracks' = <<>>
  /\ UNCHANGED << chosen, captionUrl, listed, strategies >>

\* leaving the player-API block for the direct attempts
GoAttempts ==
  /\ Ctl("attempts", 1, 0, 0)
  /\ Locals(<<>>, NoTrack, NoUrl, <<>>)
  /\ strategies' = strategies \cup {"direct"}
  /\ Running

\* part_001: leaving the captionTracks block for the direct candidates
GoDirect ==
  /\ Ctl("direct", 1, 0, 0)
  /\ Locals(<<>>, NoTrack, NoUrl, <<>>)
  /\ strategies' = strategies \cup {"embedded", "direct"}
  /\ Running

Awaited(p) == pc = p /\ inflight # NoReq

\* the response the fixed upstream gives to a request
Upstream(q) ==
  CASE q.ep = "watch" ->
         Answer(mock.watch.kind,
                IF variant = "player" THEN mock.watch.body.apiKey
                ELSE mock.watch.body)
    [] q.ep = "player" -> mock.player
    [] q.ep = "list" -> mock.list
    [] OTHER -> mock.text[q.fmt]

\* a replayed run gets the response of its fixed upstream
FromUpstream(k, b) == mock.on => Upstream(inflight) = Answer(k, b)

\* the awaited fetch ends in kind k with body b
Completed(k, b) ==
  /\ inflight' = NoReq
  /\ lastOutcome' = k
  /\ FromUpstream(k, b)

Fixed ==
  UNCHANGED << variant, url, videoId, log, perm, chosenPerm, raw, parser,
               parsed, aux >>

\* ---------------------------------------------------------------- handler
\* Serve without the `if (!videoId)` check
ServeNoCheck ==
  /\ pc = "start"
  /\ Ctl("watch", idx, lidx, vidx)
  /\ videoId' = extractVideoId(url)
  /\ strategies' = IF variant = "player" THEN {"player"} ELSE {}
  /\ Running
  /\ UNCHANGED << variant, url, inflight, log, lastOutcome, tracks, chosen,
                  captionUrl, listed, perm, chosenPerm, raw, parser,
                  parsed, aux >>

\* serve handler up to the call of fetchYouTubeTranscript
Serve ==
  /\ pc = "start"
  /\ LET id == extractVideoId(url)
     IN  IF id = NullId
         THEN /\ Ctl("done", idx, lidx, vidx)
              /\ outcome' = "invalid"
              /\ thrown' = MsgInvalid
              /\ response' = ErrorResponse(MsgInvalid)
              /\ UNCHANGED << videoId, strategies, result >>
         ELSE /\ Ctl("watch", idx, lidx, vidx)
              /\ videoId' = id
              /\ strategies' = IF variant = "player" THEN {"player"} ELSE {}
              /\ Running
  /\ UNCHANGED << variant, url, inflight, log, lastOutcome, tracks, chosen,
                  captionUrl, listed, perm, chosenPerm, raw, parser,
                  parsed, aux >>

\* ------------------------------------------------------- issuing a fetch
FetchPcs ==
  { "watch", "player", "caption", "vtt", "attempts", "list", "listed",
    "listedVtt", "embCaption", "direct", "langList", "langVariant" }

\* a request that differs from one invocation to the next
FromAttemptStamped(a) ==
  Req("timedtext", videoId, a.lang, a.kind, a.fmt,
      IF first.on THEN "en" ELSE a.tlang)

FromAttempt(a) == Req("timedtext", videoId, a.lang, a.kind, a.fmt, a.tlang)

NextRequest ==
  CASE pc = "watch" -> Req("watch", videoId, NoCode, "", "", "")
    [] pc = "player" -> Req("player", videoId, NoCode, "", "", "")
    [] pc \in {"caption", "embCaption"} ->
         Req("caption", videoId, CodeOf(chosen), chosen.kind,
             captionUrl.fmt, captionUrl.tlang)
    [] pc = "vtt" ->
         Req("caption", videoId, CodeOf(chosen), chosen.kind,
             VttUrlOf(captionUrl).fmt, VttUrlOf(captionUrl).tlang)
    [] pc = "attempts" -> FromAttempt(attempts[idx])
    [] pc = "direct" -> FromAttempt(directCandidates[idx])
    [] pc \in {"list", "langList"} -> Req("list", videoId, NoCode, "", "", "")
    [] pc = "listed" ->
         Req("timedtext", videoId, listed[lidx].lang, listed[lidx].kind,
             "srv3", ListedTlang(listed[lidx].lang))
    [] pc = "listedVtt" ->
         Req("timedtext", videoId, listed[lidx].lang, listed[lidx].kind,
             "vtt", ListedTlang(listed[lidx].lang))
    [] pc = "langVariant" -> FromAttempt(variants(listed[lidx].lang)[vidx])

\* a fetch that goes out without waiting for the one before it
IssueFetchUnawaited ==
  /\ pc \in FetchPcs
  /\ inflight' = NextRequest
  /\ log' = Append(log, NextRequest)
  /\ UNCHANGED << variant, url, pc, videoId, lastOutcome, strategies, tracks,
                  chosen, captionUrl, idx, listed, lidx, vidx, outcome,
                  result, thrown, response, perm, chosenPerm, raw,
                  parser, parsed, aux >>

\* `await fetch(...)`: the request goes out and the run waits for it
IssueFetch ==
  /\ pc \in FetchPcs
  /\ inflight = NoReq
  /\ inflight' = NextRequest
  /\ log' = Append(log, NextRequest)
  /\ UNCHANGED << variant, url, pc, videoId, lastOutcome, strategies, tracks,
                  chosen, captionUrl, idx, listed, lidx, vidx, outcome,
                  result, thrown, response, perm, chosenPerm, raw,
                  parser, parsed, aux >>

\* ------------------------------------------------- player-API variant
FetchKinds == {"threw", "notok", "ok"}

\* watch page (index.ts:79-88, 177-182)
WatchDone ==
  /\ variant = "player"
  /\ Awaited("watch")
  /\ \E k \in FetchKinds, key \in BOOLEAN :
       /\ Completed(k, key)
       /\ IF k = "threw" THEN Throw(MsgNetwork)
          ELSE IF k = "notok" \/ ~key THEN GoAttempts
          ELSE /\ Ctl("player", idx, lidx, vidx)
               /\ Running
               /\ UNCHANGED << tracks, chosen, captionUrl, listed, strategies >>
  /\ Fixed

PlayerBodies == {EmbeddedBad} \cup { Embedded("ok", ts) : ts \in TrackLists }

\* player API response, track selection and caption URL (index.ts:106-141)
PlayerDone ==
  /\ variant = "player"
  /\ Awaited("player")
  /\ \E k \in FetchKinds, body \in PlayerBodies :
       /\ Completed(k, body)
       /\ IF k = "threw" THEN Throw(MsgNetwork)
          ELSE IF k = "notok" THEN GoAttempts
          ELSE IF body.state = "bad" THEN Throw(MsgBadJson)
          ELSE IF body.tracks = <<>> THEN GoAttempts
          ELSE IF ~selectTrack(body.tracks).baseUrl.present THEN GoAttempts
          ELSE /\ Ctl("caption", idx, lidx, vidx)
               /\ Locals(body.tracks, selectTrack(body.tracks),
                         CaptionUrlOf(selectTrack(body.tracks)), listed)
               /\ Running
               /\ UNCHANGED strategies
  /\ Fixed

\* the parser chosen by the fmt parameter of the request
ParseByFmt(p) ==
  IF inflight.fmt = "vtt" THEN parseVttTranscript(p)
  ELSE IF inflight.fmt = "json3" THEN parseJson3Transcript(p)
  ELSE parseXmlTranscript(p)

\* the chosen track's payload, parsed as its request's fmt says
CaptionDoneByFmt ==
  /\ variant = "player"
  /\ Awaited("caption")
  /\ \E k \in FetchKinds, p \in Payloads :
       /\ Completed(k, p)
       /\ IF k = "threw" THEN Throw(MsgNetwork)
          ELSE IF k = "notok" THEN GoAttempts
          ELSE IF Accepted(ParseByFmt(p)) THEN Return(ParseByFmt(p))
          ELSE /\ Ctl("vtt", idx, lidx, vidx)
               /\ Running
               /\ UNCHANGED << tracks, chosen, captionUrl, listed, strategies >>
  /\ Fixed

\* payload of the chosen track (index.ts:143-158)
CaptionDone ==
  /\ variant = "player"
  /\ Awaited("caption")
  /\ \E k \in FetchKinds, p \in Payloads :
       /\ Completed(k, p)
       /\ IF k = "threw" THEN Throw(MsgNetwork)
          ELSE IF k = "notok" THEN GoAttempts
          ELSE IF Accepted(DispatchParse(p)) THEN Return(DispatchParse(p))
          ELSE /\ Ctl("vtt", idx, lidx, vidx)
               /\ Running
               /\ UNCHANGED << tracks, chosen, captionUrl, listed, strategies >>
  /\ Fixed

\* explicit VTT retry for the chosen track (index.ts:159-171)
VttDone ==
  /\ variant = "player"
  /\ Awaited("vtt")
  /\ \E k \in FetchKinds, p \in Payloads :
       /\ Completed(k, p)
       /\ IF k = "threw" THEN Throw(MsgNetwork)
          ELSE IF k = "ok" /\ p.startsVtt /\ Accepted(parseVttTranscript(p))
          THEN Return(parseVttTranscript(p))
          ELSE GoAttempts
  /\ Fixed

\* one direct attempt, inside its own try/catch (index.ts:199-228)
AttemptDone ==
  /\ variant = "player"
  /\ Awaited("attempts")
  /\ \E k \in FetchKinds, p \in Payloads :
       /\ Completed(k, p)
       /\ IF k = "ok" /\ Accepted(AttemptParse(p)) THEN Return(AttemptParse(p))
          ELSE /\ IF idx < Len(attempts)
                  THEN Ctl("attempts", idx + 1, lidx, vidx)
                  ELSE Ctl("list", idx, lidx, vidx)
               /\ Running
               /\ UNCHANGED << tracks, chosen, captionUrl, listed, strategies >>
  /\ Fixed

\* the next listed track with a lang_code, or the final throw
\* (index.ts:239-243, 288)
AdvanceListed(ls, from) ==
  IF NextListed(ls, from) = 0
  THEN /\ Throw(MsgNoCaptions)
  ELSE /\ Ctl("listed", idx, NextListed(ls, from), vidx)
       /\ Locals(tracks, chosen, captionUrl, ls)
       /\ Running
       /\ UNCHANGED strategies

\* the track listing (index.ts:233-238)
ListDone ==
  /\ variant = "player"
  /\ Awaited("list")
  /\ \E k \in FetchKinds, ls \in ListedLists :
       /\ Completed(k, ls)
       /\ IF k = "threw" THEN Throw(MsgNetwork)
          ELSE IF k = "notok" THEN Throw(MsgNoCaptions)
          ELSE AdvanceListed(ls, 1)
  /\ Fixed

\* payload of a listed track, inside its own try/catch (index.ts:252-262)
ListedDone ==
  /\ variant = "player"
  /\ Awaited("listed")
  /\ \E k \in FetchKinds, p \in Payloads :
       /\ Completed(k, p)
       /\ IF k # "ok" THEN AdvanceListed(listed, lidx + 1)
          ELSE IF Accepted(DispatchParse(p)) THEN Return(DispatchParse(p))
          ELSE /\ Ctl("listedVtt", idx, lidx, vidx)
               /\ Running
               /\ UNCHANGED << tracks, chosen, captionUrl, listed, strategies >>
  /\ Fixed

\* VTT retry of a listed track, same try/catch (index.ts:264-283)
ListedVttDone ==
  /\ variant = "player"
  /\ Awaited("listedVtt")
  /\ \E k \in FetchKinds, p \in Payloads :
       /\ Completed(k, p)
       /\ IF k = "ok" /\ p.startsVtt /\ Accepted(parseVttTranscript(p))
          THEN Return(parseVttTranscript(p))
          ELSE AdvanceListed(listed, lidx + 1)
  /\ Fixed

\* --------------------------------------- embedded-metadata variant
\* tryFetchText: '' for a failed fetch or a non-success status
TextOf(k, p) == IF k = "ok" THEN p ELSE EmptyBody

\* watch page, embedded extraction, selection and caption URL
\* (part_001:399-482)
EmbWatchDone ==
  /\ variant = "embedded"
  /\ Awaited("watch")
  /\ \E k \in FetchKinds, html \in HtmlPages :
       /\ Completed(k, html)
       /\ IF k = "threw" THEN Throw(MsgNetwork)
          ELSE IF k = "notok" THEN Throw(MsgPageStatus)
          ELSE IF ExtractTracks(html) = <<>> THEN GoDirect
          ELSE IF ~selectTrack(ExtractTracks(html)).baseUrl.present
          THEN Throw(MsgNoCaptionUrl)
          ELSE /\ Ctl("embCaption", idx, lidx, vidx)
               /\ Locals(ExtractTracks(html), selectTrack(ExtractTracks(html)),
                         CaptionUrlOf(selectTrack(ExtractTracks(html))), listed)
               /\ strategies' = strategies \cup {"embedded"}
               /\ Running
  /\ Fixed

\* payload of the selected track (part_001:485-491)
EmbCaptionDone ==
  /\ variant = "embedded"
  /\ Awaited("embCaption")
  /\ \E k \in FetchKinds, p \in Payloads :
       /\ Completed(k, p)
       /\ IF AcceptedEmbedded(parseTranscriptXml(TextOf(k, p)))
          THEN Return(parseTranscriptXml(TextOf(k, p)))
          ELSE GoDirect
  /\ Fixed

\* one direct candidate (part_001:504-511)
DirectDone ==
  /\ variant = "embedded"
  /\ Awaited("direct")
  /\ \E k \in FetchKinds, p \in Payloads :
       /\ Completed(k, p)
       /\ IF AcceptedEmbedded(parseTranscriptXml(TextOf(k, p)))
          THEN Return(parseTranscriptXml(TextOf(k, p)))
          ELSE /\ IF idx < Len(directCandidates)
                  THEN Ctl("direct", idx + 1, lidx, vidx)
                  ELSE Ctl("langList", idx, lidx, vidx)
               /\ Running
               /\ UNCHANGED << tracks, chosen, captionUrl, listed, strategies >>
  /\ Fixed

\* the language listing (part_001:514-518, 535)
LangListDone ==
  /\ variant = "embedded"
  /\ Awaited("langList")
  /\ \E k \in FetchKinds, ls \in ListedLists :
       /\ Completed(k, ls)
       /\ IF LanguagesOf(IF k = "ok" THEN ls ELSE <<>>) = <<>>
          THEN Throw(MsgNoCaptions)
          ELSE /\ Ctl("langVariant", idx, 1, 1)
               /\ Locals(tracks, chosen, captionUrl, LanguagesOf(ls))
               /\ Running
               /\ UNCHANGED strategies
  /\ Fixed

\* one variant of one listed language (part_001:518-535)
LangVariantDone ==
  /\ variant = "embedded"
  /\ Awaited("langVariant")
  /\ \E k \in FetchKinds, p \in Payloads :
       /\ Completed(k, p)
       /\ IF AcceptedEmbedded(parseTranscriptXml(TextOf(k, p)))
          THEN Return(parseTranscriptXml(TextOf(k, p)))
          ELSE IF vidx < Len(variants(listed[lidx].lang))
          THEN /\ Ctl("langVariant", idx, lidx, vidx + 1)
               /\ Running
               /\ UNCHANGED << tracks, chosen, captionUrl, listed, strategies >>
          ELSE IF lidx < Len(listed)
          THEN /\ Ctl("langVariant", idx, lidx + 1, 1)
               /\ Running
               /\ UNCHANGED << tracks, chosen, captionUrl, listed, strategies >>
          ELSE Throw(MsgNoCaptions)
  /\ Fixed

\* ------------------------------------------------------- specification
Next ==
  \/ Serve
  \/ IssueFetch
  \/ WatchDone
  \/ PlayerDone
  \/ CaptionDone
  \/ VttDone
  \/ AttemptDone
  \/ ListDone
  \/ ListedDone
  \/ ListedVttDone
  \/ EmbWatchDone
  \/ EmbCaptionDone
  \/ DirectDone
  \/ LangListDone
  \/ LangVariantDone

Spec == Init /\ [][Next]_vars

\* ------------------------------------------------ selectTrack on its own
\* all orderings of a list
Orderings(ts) ==
  { [i \in 1..Len(ts) |-> ts[f[i]]] :
      f \in { g \in [1..Len(ts) -> 1..Len(ts)] :
                \A i, j \in 1..Len(ts) : g[i] = g[j] => i = j } }

InitSelect ==
  /\ variant = "player"
  /\ url = RefEmpty
  /\ pc = "select"
  /\ videoId = NullId
  /\ inflight = NoReq
  /\ log = <<>>
  /\ lastOutcome = "none"
  /\ strategies = {}
  /\ tracks \in TrackLists \ {<<>>}
  /\ chosen = NoTrack
  /\ captionUrl = NoUrl
  /\ idx = 0
  /\ listed = <<>>
  /\ lidx = 0
  /\ vidx = 0
  /\ outcome = "running"
  /\ result = EmptyTranscript
  /\ thrown = ""
  /\ response = NoResponse
  /\ perm = <<>>
  /\ chosenPerm = NoTrack
  /\ raw = NoDocument
  /\ parser = ""
  /\ parsed = EmptyParsed
  /\ AuxIdle

\* selectTrack applied to the list and to one reordering of it
Select ==
  /\ pc = "select"
  /\ \E q \in Orderings(tracks) :
       /\ perm' = q
       /\ chosenPerm' = selectTrack(q)
  /\ chosen' = selectTrack(tracks)
  /\ pc' = "selected"
  /\ UNCHANGED << variant, url, videoId, inflight, log, lastOutcome,
                  strategies, tracks, captionUrl, idx, listed, lidx, vidx,
                  outcome, result, thrown, response, raw, parser, parsed, aux >>

NextSelect == Select

SpecSelect == InitSelect /\ [][NextSelect]_vars

\* ------------------------------------------ the other specifications
\* the pipeline's variables while no request is being served
PipelineIdle ==
  /\ variant = "player"
  /\ videoId = NullId
  /\ inflight = NoReq
  /\ log = <<>>
  /\ lastOutcome = "none"
  /\ strategies = {}
  /\ tracks = <<>>
  /\ chosen = NoTrack
  /\ captionUrl = NoUrl
  /\ idx = 0
  /\ listed = <<>>
  /\ lidx = 0
  /\ vidx = 0
  /\ outcome = "running"
  /\ result = EmptyTranscript
  /\ thrown = ""
  /\ response = NoResponse
  /\ perm = <<>>
  /\ chosenPerm = NoTrack
  /\ AuxIdle

\* ---------------------------------------------- extractVideoId on its own
\* "dQw4w9WgXcQ", "a-b_c123456", "00000000000"
ResolveIds ==
  { RefBare,
    <<"a","-","b","_","c","1","2","3","4","5","6">>,
    <<"0","0","0","0","0","0","0","0","0","0","0">> }

\* "", "https://", "http://www.", "https://m."
Schemes ==
  { <<>>,
    <<"h","t","t","p","s",":","/","/">>,
    <<"h","t","t","p",":","/","/","w","w","w",".">>,
    <<"h","t","t","p","s",":","/","/","m",".">> }

\* "", "&t=1", "?t=1", "#t"
Suffixes ==
  { <<>>, <<"&","t","=","1">>, <<"?","t","=","1">>, <<"#","t">> }

\* the watch, short-link and embed URLs of an identifier, with or without
\* a query or fragment after it, and the bare identifier
ReferencesOf(id) ==
  { sc \o lit \o id \o sf :
      sc \in Schemes, lit \in UrlLiterals, sf \in Suffixes }
  \cup {id}

ResolveRefs == UNION { ReferencesOf(id) : id \in ResolveIds } \cup Refs

InitResolve ==
  /\ PipelineIdle
  /\ url \in ResolveRefs
  /\ pc = "resolve"
  /\ raw = NoDocument
  /\ parser = ""
  /\ parsed = EmptyParsed

\* const videoId = extractVideoId(url)
Resolve ==
  /\ pc = "resolve"
  /\ videoId' = extractVideoId(url)
  /\ pc' = "resolved"
  /\ UNCHANGED << variant, url, inflight, log, lastOutcome, strategies,
                  tracks, chosen, captionUrl, idx, listed, lidx, vidx,
                  outcome, result, thrown, response, perm, chosenPerm,
                  raw, parser, parsed, aux >>

NextResolve == Resolve

SpecResolve == InitResolve /\ [][NextResolve]_vars

\* -------------------------------------------------- parsers on their own
InitParse ==
  /\ PipelineIdle
  /\ url = RefEmpty
  /\ pc = "parse"
  /\ raw \in Documents
  /\ parser = ""
  /\ parsed = EmptyParsed

\* one parser called on the payload
Apply(name, transcript) ==
  /\ pc = "parse"
  /\ parser' = name
  /\ parsed' = transcript
  /\ pc' = "parsed"
  /\ UNCHANGED << variant, url, videoId, inflight, log, lastOutcome,
                  strategies, tracks, chosen, captionUrl, idx, listed, lidx,
                  vidx, outcome, result, thrown, response, perm, chosenPerm,
                  raw, aux >>

ParseXml == Apply("xml", XmlTranscript(raw))

ParseJson3 == Apply("json3", Json3Transcript(raw))

ParseVtt == Apply("vtt", VttTranscript(raw))

ParseCaptionsXml == Apply("captionsXml", CaptionsXmlTranscript(raw))

NextParse ==
  \/ ParseXml
  \/ ParseJson3
  \/ ParseVtt
  \/ ParseCaptionsXml

SpecParse == InitParse /\ [][NextParse]_vars

\* ------------------------------ one content in the three wire formats
\* a caption: start offset in thousandths of a second, and text
Caption(ms, x) == [startMs |-> ms, text |-> x]

\* a, b c, a&b, a over b on two lines, and <i>a
CaptionTexts ==
  { <<"a">>, <<"b"," ","c">>, <<"a","&","b">>, <<"a","\n","b">>,
    <<"<","i",">","a">> }

Contents ==
  SeqsUpTo({ Caption(ms, x) : ms \in {0, 65500}, x \in CaptionTexts },
           MaxRecords) \ {<<>>}

\* character data with & < > written as entities
Escape(x) ==
  ReplaceAll(
    ReplaceAll(
      ReplaceAll(x, <<"&">>, <<"&","a","m","p",";">>),
      <<"<">>, <<"&","l","t",";">>),
    <<">">>, <<"&","g","t",";">>)

Pad3(n) ==
  IF n < 10 THEN <<"0","0">> \o NumberToString(n)
  ELSE IF n < 100 THEN <<"0">> \o NumberToString(n)
  ELSE NumberToString(n)

\* seconds with a decimal fraction: 65500 is "65.500"
SecondsText(ms) ==
  NumberToString(ms \div 1000)
    \o (IF ms % 1000 = 0 THEN <<>> ELSE <<".">> \o Pad3(ms % 1000))

\* hh:mm:ss.mmm
TimecodeText(ms) ==
  PadStart2(NumberToString(ms \div 3600000)) \o <<":">>
    \o PadStart2(NumberToString((ms % 3600000) \div 60000)) \o <<":">>
    \o PadStart2(NumberToString((ms % 60000) \div 1000)) \o <<".">>
    \o Pad3(ms % 1000)

\* <transcript><text start="s">text</text>...</transcript>
ToXml(c) ==
  Document("xml", "",
           [i \in 1..Len(c) |->
              XmlElem("text", TRUE, SecondsText(c[i].startMs),
                      Escape(c[i].text))],
           <<>>, <<>>)

\* {"events":[{"tStartMs":ms,"segs":[{"utf8":text}]},...]}
ToJson3(c) ==
  Document("json", "events", <<>>,
           [i \in 1..Len(c) |->
              Event("object", TRUE, TRUE, c[i].startMs, <<c[i].text>>)],
           <<>>)

\* WEBVTT, then per caption its timing line, its text lines, a blank line
ToVtt(c) ==
  Document("vtt", "", <<>>, <<>>,
           <<HeaderLine, BlankLine>>
             \o Flatten([i \in 1..Len(c) |->
                           <<TimingLine(TimecodeText(c[i].startMs))>>
                             \o Split(Escape(c[i].text), "\n")
                             \o <<BlankLine>>]))

Serialized(name, c) ==
  CASE name = "xml" -> ToXml(c)
    [] name = "json3" -> ToJson3(c)
    [] name = "vtt" -> ToVtt(c)

\* each parser on its own serialization of the content
ParsedAs(name, c) ==
  CASE name = "xml" -> XmlTranscript(ToXml(c))
    [] name = "json3" -> Json3Transcript(ToJson3(c))
    [] name = "vtt" -> VttTranscript(ToVtt(c))

InitFormats ==
  /\ PipelineIdle
  /\ url = RefEmpty
  /\ pc = "parse"
  /\ raw \in { Serialized(n, c) : n \in {"xml", "json3", "vtt"}, c \in Contents }
  /\ parser = ""
  /\ parsed = EmptyParsed

SpecFormats == InitFormats /\ [][NextParse]_vars

\* ------------------------------------------- one reference, served fairly
\* one reference that resolves and one that does not
InitOne ==
  /\ variant \in {"player", "embedded"}
  /\ url \in {RefWatch, RefNoMatch}
  /\ Start
  /\ AuxIdle

\* every fetch completes and the runtime resumes the request after it
SpecFair == InitOne /\ [][Next]_vars /\ WF_vars(Next)

\* ------------------------------------------- the caller going away
\* the caller closes its connection while the request is being served;
\* the handler registers no abort listener and passes no signal on
Cancel ==
  /\ pc # "done"
  /\ ~cancelled
  /\ cancelled' = TRUE
  /\ UNCHANGED << variant, url, pc, videoId, inflight, log, lastOutcome,
                  strategies, tracks, chosen, captionUrl, idx, listed, lidx,
                  vidx, outcome, result, thrown, response, perm, chosenPerm,
                  raw, parser, parsed, mock, first, lang >>

NextCancel ==
  \/ Next
  \/ Cancel

SpecCancel == InitOne /\ [][NextCancel]_vars

\* ------------------------------------- two runs against one upstream
MockWatch ==
  { Answer("ok", Html(TRUE,
                      Embedded("ok", <<Track(LangEn, NoCode, "asr", PlainUrl)>>),
                      EmbeddedAbsent)),
    Answer("ok", Html(TRUE, EmbeddedAbsent, EmbeddedAbsent)),
    Answer("notok", Html(FALSE, EmbeddedAbsent, EmbeddedAbsent)) }

MockPlayer ==
  { Answer("ok", Embedded("ok", <<Track(LangEn, NoCode, "asr", PlainUrl)>>)),
    Answer("ok", Embedded("ok", <<Track(LangEnGB, NoCode, "", Json3Url)>>)),
    Answer("notok", EmbeddedBad) }

MockList ==
  { Answer("ok", <<>>),
    Answer("ok", <<Listed(LangEn, "asr"), Listed(LangFr, "")>>) }

\* an empty body, a body of <text> elements without a <transcript> root,
\* a WEBVTT body
MockText ==
  { Answer("ok", EmptyBody),
    Answer("ok", Payload(FALSE, FALSE, FALSE, TRUE, 200, "xml", <<51>>)),
    Answer("ok", Payload(TRUE, FALSE, FALSE, FALSE, 200, "vtt", <<60>>)) }

Mocks ==
  { Mock(w, pl, li, tx) :
      w \in MockWatch, pl \in MockPlayer, li \in MockList,
      tx \in [RequestFmts -> MockText] }

InitReplay ==
  /\ variant \in {"player", "embedded"}
  /\ url = RefWatch
  /\ Start
  /\ cancelled = FALSE
  /\ mock \in Mocks
  /\ first = NoRun
  /\ lang = NoCode

\* the handler is invoked again with the same request: every invocation
\* starts from fresh locals, the module keeps no state between requests
Rerun ==
  /\ pc = "done"
  /\ mock.on
  /\ ~first.on
  /\ first' = Run(log, response, result, thrown)
  /\ pc' = "start"
  /\ videoId' = NullId
  /\ inflight' = NoReq
  /\ log' = <<>>
  /\ lastOutcome' = "none"
  /\ strategies' = {}
  /\ Locals(<<>>, NoTrack, NoUrl, <<>>)
  /\ idx' = 0
  /\ lidx' = 0
  /\ vidx' = 0
  /\ outcome' = "running"
  /\ result' = EmptyTranscript
  /\ thrown' = ""
  /\ response' = NoResponse
  /\ UNCHANGED << perm, chosenPerm, raw, parser, parsed >>
  /\ UNCHANGED << variant, url, cancelled, mock, lang >>

NextReplay ==
  \/ Next
  \/ Rerun

SpecReplay == InitReplay /\ [][NextReplay]_vars

\* ------------------------------------ the get-youtube-captions handler
CaptionsPcs == {"manual", "asr", "enManual", "enAsr"}

\* the timedtext URL of each try: the requested language, its
\* auto-generated track, English, English auto-generated
CaptionsRequest ==
  CASE pc = "manual" -> Req("timedtext", videoId, lang, "", "", "")
    [] pc = "asr" -> Req("timedtext", videoId, lang, "asr", "", "")
    [] pc = "enManual" -> Req("timedtext", videoId, LangEn, "", "", "")
    [] pc = "enAsr" -> Req("timedtext", videoId, LangEn, "asr", "", "")

\* JSON.stringify({ error: ... }), status: 400
CaptionsError(msg) ==
  [status |-> 400, error |-> msg, transcript |-> 0, timeline |-> <<>>,
   hasTimeline |-> FALSE]

\* JSON.stringify(parsed) with the default status; texts by their lengths
CaptionsSuccess(r) ==
  [status |-> 200, error |-> "", transcript |-> Len(r.text),
   timeline |-> [i \in 1..Len(r.timeline) |-> Len(r.timeline[i].text)],
   hasTimeline |-> TRUE]

\* the bodies the timedtext endpoint sends
CaptionsBodies == XmlDocuments \cup {NoDocument, HtmlDocument}

InitCaptions ==
  /\ variant = "player"
  /\ url \in {RefWatch, RefNoMatch}
  /\ Start
  /\ cancelled = FALSE
  /\ mock = NoMock
  /\ first = NoRun
  /\ lang \in {LangEn, LangFr}

\* the handler's response
CaptionsAnswer(rsp, th, oc) ==
  /\ pc' = "answered"
  /\ response' = rsp
  /\ thrown' = th
  /\ outcome' = oc

CaptionsLeaves ==
  UNCHANGED << variant, url, strategies, tracks, chosen, captionUrl, idx,
               listed, lidx, vidx, result, perm, chosenPerm, aux >>

\* up to the first fetch
CaptionsServe ==
  /\ pc = "start"
  /\ IF extractVideoId(url) = NullId
     THEN /\ CaptionsAnswer(CaptionsError(MsgInvalid), MsgInvalid, "invalid")
          /\ UNCHANGED videoId
     ELSE /\ pc' = "manual"
          /\ videoId' = extractVideoId(url)
          /\ UNCHANGED << response, thrown, outcome >>
  /\ UNCHANGED << inflight, log, lastOutcome, raw, parser, parsed >>
  /\ CaptionsLeaves

\* `await fetch(captionUrl)`
CaptionsIssue ==
  /\ pc \in CaptionsPcs
  /\ inflight = NoReq
  /\ inflight' = CaptionsRequest
  /\ log' = Append(log, CaptionsRequest)
  /\ UNCHANGED << pc, videoId, lastOutcome, raw, parser, parsed, response,
                  thrown, outcome >>
  /\ CaptionsLeaves

\* the try that follows a body without '<text', "" after the last one
CaptionsNextTry ==
  CASE pc = "manual" -> "asr"
    [] pc = "asr" -> IF lang # LangEn THEN "enManual" ELSE ""
    [] pc = "enManual" -> "enAsr"
    [] pc = "enAsr" -> ""

\* the body of one try arrives; its status is not looked at
CaptionsDone ==
  /\ pc \in CaptionsPcs
  /\ inflight # NoReq
  /\ \E k \in FetchKinds, doc \in CaptionsBodies :
       /\ inflight' = NoReq
       /\ lastOutcome' = k
       /\ IF k = "threw"
          THEN /\ CaptionsAnswer(CaptionsError(MsgNetwork), MsgNetwork, "failed")
               /\ UNCHANGED << raw, parser, parsed >>
          ELSE /\ raw' = doc
               /\ IF IncludesTextTag(doc)
                  THEN /\ parser' = "captionsXml"
                       /\ parsed' = CaptionsXmlTranscript(doc)
                       /\ CaptionsAnswer(
                            CaptionsSuccess(CaptionsXmlTranscript(doc)),
                            "", "accepted")
                  ELSE /\ UNCHANGED << parser, parsed >>
                       /\ IF CaptionsNextTry = ""
                          THEN CaptionsAnswer(CaptionsError(MsgNoCaptions),
                                              MsgNoCaptions, "failed")
                          ELSE /\ pc' = CaptionsNextTry
                               /\ UNCHANGED << response, thrown, outcome >>
  /\ UNCHANGED << videoId, log >>
  /\ CaptionsLeaves

NextCaptions ==
  \/ CaptionsServe
  \/ CaptionsIssue
  \/ CaptionsDone

SpecCaptions == InitCaptions /\ [][NextCaptions]_vars

\* ------------------------------- the client's fetchYouTubeTranscript
FnCaptions == "get-youtube-captions"
FnExtract == "extract-youtube-transcript"

MsgBothFailed ==
  "Failed to extract video transcript. The video may not have captions available."

\* what supabase.functions.invoke resolves to: status 0 is a request that
\* never got a response, a status outside 200..299 sets `error`, and a
\* success carries `text` / `transcript` (0: absent or empty) and a
\* timeline (hasTimeline FALSE: not an array)
FunctionResponses ==
  { NoResponse, CaptionsError(MsgNoCaptions), ErrorResponse(MsgCouldNotFetch) }
  \cup
  { [status |-> 200, error |-> "", transcript |-> n, timeline |-> tl,
     hasTimeline |-> TRUE] : n \in {0, 30, 60}, tl \in {<<>>, <<30>>, <<20, 39>>} }
  \cup
  { [status |-> 200, error |-> "", transcript |-> n, timeline |-> <<>>,
     hasTimeline |-> FALSE] : n \in {0, 60} }

\* every call counted as failed
InvokeFailedAlways(rsp) == TRUE

\* `if (error) throw error` and `if (!data?.text) throw ...`
InvokeFailed(rsp) ==
  \/ rsp.status \notin 200..299
  \/ rsp.transcript = 0

\* the returned string: the text, and the timeline section when
\* data.timeline is a non-empty array
ClientResult(rsp) ==
  [text |-> rsp.transcript,
   timeline |-> IF rsp.hasTimeline /\ Len(rsp.timeline) > 0
                THEN rsp.timeline ELSE <<>>]

InitClient ==
  /\ PipelineIdle
  /\ url \in Refs
  /\ pc = "primary"
  /\ response = NoResponse
  /\ raw = NoDocument
  /\ parser = ""
  /\ parsed = EmptyParsed

ClientLeaves ==
  UNCHANGED << variant, url, videoId, strategies, tracks, chosen, captionUrl,
               idx, listed, lidx, vidx, perm, chosenPerm, raw, parser,
               parsed, aux >>

\* body { url, lang: 'en' } for the first function, { url } for the second
ClientRequest ==
  IF pc = "primary" THEN Req(FnCaptions, NullId, LangEn, "", "", "")
  ELSE Req(FnExtract, NullId, NoCode, "", "", "")

\* `await supabase.functions.invoke(...)`
ClientInvoke ==
  /\ pc \in {"primary", "fallback"}
  /\ inflight = NoReq
  /\ inflight' = ClientRequest
  /\ log' = Append(log, ClientRequest)
  /\ UNCHANGED << pc, lastOutcome, outcome, result, thrown, response >>
  /\ ClientLeaves

\* the first call settles
PrimaryReturns ==
  /\ pc = "primary"
  /\ inflight # NoReq
  /\ \E rsp \in FunctionResponses :
       /\ response' = rsp
       /\ IF InvokeFailed(rsp)
          THEN /\ pc' = "fallback"
               /\ lastOutcome' = "failed"
               /\ UNCHANGED << outcome, result, thrown >>
          ELSE /\ pc' = "returned"
               /\ lastOutcome' = "ok"
               /\ outcome' = "accepted"
               /\ result' = ClientResult(rsp)
               /\ UNCHANGED thrown
  /\ inflight' = NoReq
  /\ UNCHANGED log
  /\ ClientLeaves

\* the second call settles
FallbackReturns ==
  /\ pc = "fallback"
  /\ inflight # NoReq
  /\ \E rsp \in FunctionResponses :
       /\ response' = rsp
       /\ IF InvokeFailed(rsp)
          THEN /\ lastOutcome' = "failed"
               /\ outcome' = "failed"
               /\ thrown' = MsgBothFailed
               /\ UNCHANGED result
          ELSE /\ lastOutcome' = "ok"
               /\ outcome' = "accepted"
               /\ result' = ClientResult(rsp)
               /\ UNCHANGED thrown
  /\ pc' = "returned"
  /\ inflight' = NoReq
  /\ UNCHANGED log
  /\ ClientLeaves

NextClient ==
  \/ ClientInvoke
  \/ PrimaryReturns
  \/ FallbackReturns

SpecClient == InitClient /\ [][NextClient]_vars

\* ------------------------------------- the pipeline with a silent endpoint
\* `await fetch(url, { headers })` carries no signal and no timer: when
\* the endpoint never answers, the promise never settles and the run
\* stays at its await
NeverResponds ==
  /\ pc \in FetchPcs
  /\ inflight # NoReq
  /\ pc' = "stalled"
  /\ UNCHANGED << variant, url, videoId, inflight, log, lastOutcome,
                  strategies, tracks, chosen, captionUrl, idx, listed, lidx,
                  vidx, outcome, result, thrown, response, perm, chosenPerm,
                  raw, parser, parsed, aux >>

NextLive ==
  \/ Next
  \/ NeverResponds

\* the runtime resumes a request whenever one of its steps can be taken
SpecLive == Init /\ [][NextLive]_vars /\ WF_vars(NextLive)


TypeOK ==
  /\ pc \in FetchPcs \cup {"start", "done", "select", "selected", "resolve",
                        "resolved", "parse", "parsed", "stalled",
                        "answered", "primary", "fallback", "returned"}
           \cup CaptionsPcs
  /\ parser \in {"", "xml", "json3", "vtt", "captionsXml"}
  /\ outcome \in {"running", "invalid", "accepted", "failed"}
  /\ Len(log) <= 2 + 2 + Len(attempts) + 1 + 2 * MaxListed

\* ------------------------------------------------------------ properties
Requested(ep) == \E i \in 1..Len(log) : log[i].ep = ep

\* every direct attempt, the listing and every listed track with a
\* lang_code has been requested
EverythingTried ==
  /\ \A a \in 1..Len(attempts) :
       \E i \in 1..Len(log) : log[i] = FromAttempt(attempts[a])
  /\ Requested("list")
  /\ \A k \in 1..Len(listed) :
       listed[k].lang # NoCode =>
         \E i \in 1..Len(log) :
           /\ log[i].ep = "timedtext"
           /\ log[i].lang = listed[k].lang
           /\ log[i].kind = listed[k].kind
           /\ \E j \in 1..(i - 1) : log[j].ep = "list"

\* C1: in the player-API variant a run that ends because a fetch failed
\* (non-success status or thrown error) has tried every remaining
\* candidate and strategy before it failed.
C1_FetchFailureNeverAborts ==
  (variant = "player" /\ outcome = "failed"
     /\ lastOutcome \in {"threw", "notok"})
  => EverythingTried

\* C2: a run is accepted only in a finished state with nothing in flight,
\* and once a run is accepted no further upstream request is issued.
C2_NoFetchAfterAccept ==
  [][ /\ outcome' = "accepted" => (pc' = "done" /\ inflight' = NoReq)
      /\ outcome = "accepted" => (log' = log /\ result' = result) ]_vars

\* a transcript accepted for the chosen track, before any direct attempt
C2_Witness ==
  /\ outcome = "accepted"
  /\ variant = "player"
  /\ Requested("caption")
  /\ ~Requested("timedtext")
  /\ ~Requested("list")

\* C3: every transcript fetchYouTubeTranscript returns is longer than the
\* minimum-content threshold of 50 characters.
C3_ReturnedAboveThreshold ==
  outcome = "accepted" => result.text > MinContent

\* C4: a run of the player-API variant that does not end accepted ends
\* with the no-captions error response, and only after every strategy and
\* every candidate has been tried.
C4_ExhaustedOnlyAfterAll ==
  (variant = "player" /\ pc = "done" /\ outcome \notin {"accepted", "invalid"})
  => /\ response.status = 500
     /\ response.error = MsgCouldNotFetch
     /\ EverythingTried

\* C5: no player-API request before embedded-metadata extraction has been
\* attempted, and no direct caption-endpoint request before the player-API
\* strategy has been attempted.
C5_StrategyOrder ==
  /\ Requested("player") => "embedded" \in strategies
  /\ (Requested("timedtext") \/ Requested("list")) => "player" \in strategies

\* C6: a reference that matches no pattern ends the request with the
\* invalid-reference error response and without any upstream request.
C6_InvalidReferenceNoFetch ==
  (pc # "start" /\ videoId = NullId)
  => /\ pc = "done"
     /\ outcome = "invalid"
     /\ response.status = 500
     /\ response.error = MsgInvalid
     /\ log = <<>>
     /\ inflight = NoReq

C6_Witness ==
  /\ pc = "done"
  /\ url = RefNoMatch
  /\ outcome = "invalid"

RangeOf(q) == { q[i] : i \in 1..Len(q) }

English(t) == isEn(CodeOf(t))

\* C7: selectTrack returns an element of the list: an English ASR track if
\* there is one, else an English manual track if there is one, else an ASR
\* track if there is one, else the first element.
C7_SelectByPriority ==
  pc = "selected" =>
    /\ chosen \in RangeOf(tracks)
    /\ IF \E t \in RangeOf(tracks) : English(t) /\ t.kind = "asr"
       THEN English(chosen) /\ chosen.kind = "asr"
       ELSE IF \E t \in RangeOf(tracks) : English(t)
       THEN English(chosen) /\ chosen.kind # "asr"
       ELSE IF \E t \in RangeOf(tracks) : t.kind = "asr"
       THEN chosen.kind = "asr"
       ELSE chosen = tracks[1]

\* an English manual track behind a foreign ASR track is chosen
C7_Witness ==
  /\ pc = "selected"
  /\ Len(tracks) = 3
  /\ tracks[1].kind = "asr"
  /\ ~English(tracks[1])
  /\ chosen = tracks[3]
  /\ English(chosen)
  /\ chosen.kind # "asr"

\* C8 as stated: every permutation of the list yields the same chosen track.
C8_OrderIndependent ==
  pc = "selected" => chosenPerm = chosen

PriorityClass(t) ==
  IF English(t) /\ t.kind = "asr" THEN 1
  ELSE IF English(t) THEN 2
  ELSE IF t.kind = "asr" THEN 3
  ELSE 4

\* C8 amended: every permutation of the list yields a chosen track of the
\* same priority class, and the same track when only one track of the list
\* is in that class.
C8_ClassOrderIndependent ==
  pc = "selected" =>
    /\ PriorityClass(chosenPerm) = PriorityClass(chosen)
    /\ Cardinality({ t \in RangeOf(tracks) :
                       PriorityClass(t) = PriorityClass(chosen) }) = 1
       => chosenPerm = chosen

\* a reordered list whose chosen track sits at another position
C8_Witness ==
  /\ pc = "selected"
  /\ perm # tracks
  /\ Len(tracks) = 3
  /\ chosen = tracks[3]
  /\ chosenPerm = perm[1]
  /\ chosenPerm = chosen

\* C9: in the player-API variant every payload request for a chosen or
\* listed track whose language code is not English (not 'en', no 'en'
\* prefix, no '.en') carries tlang=en.
C9_NonEnglishTranslated ==
  variant = "player" =>
    \A i \in 1..Len(log) :
      (/\ log[i].ep \in {"caption", "timedtext"}
       /\ (log[i].ep = "timedtext" => log[i].lang # NoCode)
       /\ ~isEn(log[i].lang))
      => log[i].tlang = "en"

ValidVideoId(id) ==
  /\ Len(id) = IdLength
  /\ \A k \in 1..Len(id) : id[k] \in IdAlphabet

\* C10: the VideoId a run works with is 11 characters of the identifier
\* alphabet, and every request of the run carries that same VideoId.
C10_VideoIdWellFormed ==
  videoId # NullId =>
    /\ ValidVideoId(videoId)
    /\ \A i \in 1..Len(log) : log[i].v = videoId

\* C11: the watch URL, the short-link URL and the embed URL of an
\* identifier, each with or without a query or fragment after it, and the
\* bare identifier all resolve to that identifier; the URL pattern is
\* applied first and its capture is the result whenever it matches, the
\* bare-identifier pattern only otherwise.
C11_SameIdAcrossShapes ==
  pc = "resolved" =>
    /\ \A id \in ResolveIds : url \in ReferencesOf(id) => videoId = id
    /\ UrlPatternStarts(url) # {} => videoId = UrlPatternCapture(url)
    /\ (UrlPatternStarts(url) = {} /\ BareIdMatches(url)) => videoId = url

\* a short link with a query after the identifier
C11_Witness ==
  /\ pc = "resolved"
  /\ url = <<"h","t","t","p","s",":","/","/">> \o ShortLiteral
             \o <<"a","-","b","_","c","1","2","3","4","5","6">>
             \o <<"?","t","=","1">>
  /\ videoId = <<"a","-","b","_","c","1","2","3","4","5","6">>

\* C12: no timeline entry a parser returns has a text that is empty
\* after trimming.
C12_NoEmptySegment ==
  pc = "parsed" =>
    \A i \in 1..Len(parsed.timeline) : Trim(parsed.timeline[i].text) # <<>>

\* C13: the text a parser returns is the texts of its timeline entries,
\* in timeline order, joined by single spaces.
C13_TextIsJoinedTimeline ==
  pc = "parsed" =>
    parsed.text =
      JoinWith([i \in 1..Len(parsed.timeline) |-> parsed.timeline[i].text],
               <<" ">>)

\* two cues, the second of two lines, parsed to "a b c"
C13_Witness ==
  /\ pc = "parsed"
  /\ parser = "vtt"
  /\ Len(parsed.timeline) = 2
  /\ parsed.timeline[2].text = <<"b"," ","c">>
  /\ parsed.text = <<"a"," ","b"," ","c">>

\* the label the specification gives an offset: whole seconds, h:mm:ss
\* when hours > 0, m:ss otherwise
WholeSecondsLabel(ms) ==
  LET total == ms \div 1000
      h == total \div 3600
      m == (total % 3600) \div 60
      sec == total % 60
  IN  IF h > 0
      THEN NumberToString(h) \o <<":">> \o PadStart2(NumberToString(m))
             \o <<":">> \o PadStart2(NumberToString(sec))
      ELSE NumberToString(m) \o <<":">> \o PadStart2(NumberToString(sec))

\* C14: parseXmlTranscript, parseJson3Transcript and parseVttTranscript
\* label every entry with its start offset truncated to whole seconds,
\* as h:mm:ss when hours > 0 and as m:ss otherwise.
C14_SameTimeLabel ==
  (pc = "parsed" /\ parser \in {"xml", "json3", "vtt"}) =>
    \A i \in 1..Len(parsed.timeline) :
      parsed.timeline[i].time = WholeSecondsLabel(parsed.timeline[i].startMs)

\* the payload carries what the parser looks for
MatchesSignature(name, doc) ==
  CASE name = "xml" -> IncludesTextTag(doc)
    [] name = "json3" ->
         /\ doc.fmt = "json"
         /\ doc.shape = "events"
         /\ \A i \in 1..Len(doc.events) : doc.events[i].kind # "null"
    [] name = "vtt" -> IncludesHeader(doc)
    [] OTHER -> TRUE

\* C15: parseXmlTranscript, parseJson3Transcript and parseVttTranscript
\* never throw, and return the empty transcript for the empty input, for
\* a payload of another format, for malformed JSON and for JSON without
\* a usable events array.
C15_MismatchGivesEmpty ==
  (pc = "parsed" /\ parser \in {"xml", "json3", "vtt"}) =>
    /\ ~parsed.threw
    /\ ~MatchesSignature(parser, raw) => parsed = EmptyParsed

\* parseJson3Transcript on text that is not JSON
C15_Witness ==
  /\ pc = "parsed"
  /\ parser = "json3"
  /\ raw.fmt = "json"
  /\ raw.shape = "malformed"
  /\ parsed = EmptyParsed

\* C16: in the player-API variant an error response carries one of the
\* two messages, and the run it ends was ended by the invalid-reference
\* error or by the no-captions error thrown after the last candidate.
C16_OnlyTwoErrors ==
  (variant = "player" /\ pc = "done" /\ outcome # "accepted") =>
    \/ response.error = MsgInvalid /\ thrown = MsgInvalid
    \/ response.error = MsgCouldNotFetch /\ thrown = MsgNoCaptions

\* C17: every run that enters the pipeline ends accepted or failed, also
\* when an endpoint never responds.
C17_EveryRunEnds ==
  (pc = "watch") ~> (outcome \in {"accepted", "failed"})

\* a payload request of the direct strategy: before any listing request
DirectAt(i) ==
  /\ log[i].ep = "timedtext"
  /\ \A j \in 1..(i - 1) : log[j].ep # "list"

\* 1 English auto-generated, 2 English manual, 3 translated to English
CombinationClass(r) ==
  IF r.tlang = "en" THEN 3
  ELSE IF r.kind = "asr" THEN 1
  ELSE 2

DirectTable == IF variant = "player" THEN attempts ELSE directCandidates

\* C18: the direct combinations are requested in the order English
\* auto-generated, English manual, translated; the listing is requested
\* only after every combination; listed tracks are requested only after
\* the listing, are tracks of the listing and follow its order.
C18_DirectPriorityOrder ==
  /\ \A i, j \in 1..Len(log) :
       (i < j /\ DirectAt(i) /\ DirectAt(j))
         => CombinationClass(log[i]) <= CombinationClass(log[j])
  /\ \A l \in 1..Len(log) :
       log[l].ep = "list" =>
         \A a \in 1..Len(DirectTable) :
           \E i \in 1..(l - 1) : log[i] = FromAttempt(DirectTable[a])
  /\ \A i \in 1..Len(log) :
       (log[i].ep = "timedtext" /\ ~DirectAt(i)) =>
         \E k \in 1..Len(listed) : listed[k].lang = log[i].lang
  /\ \A i, j \in 1..Len(log) :
       (i < j /\ log[i].ep = "timedtext" /\ log[j].ep = "timedtext"
          /\ ~DirectAt(i)) =>
         \E k, m \in 1..Len(listed) :
           k <= m /\ listed[k].lang = log[i].lang
             /\ listed[m].lang = log[j].lang

\* C19: a finished request of the player-API variant has either the
\* success response with the returned transcript and its timeline, and
\* then the run was accepted, or a non-2xx response with an error
\* message and neither transcript nor timeline, and then it was not.
C19_ResponseShape ==
  (variant = "player" /\ pc = "done") =>
    \/ /\ response.status = 200
       /\ outcome = "accepted"
       /\ response.error = ""
       /\ response.hasTimeline
       /\ response.transcript = result.text
       /\ response.timeline = result.timeline
    \/ /\ response.status \notin 200..299
       /\ outcome # "accepted"
       /\ response.error # ""
       /\ response.transcript = 0
       /\ response.timeline = <<>>
       /\ ~response.hasTimeline

\* the error response of a run that tried the listing and failed
C19_Witness ==
  /\ variant = "player"
  /\ pc = "done"
  /\ outcome = "failed"
  /\ Requested("list")
  /\ response.status = 500
  /\ response.error = MsgCouldNotFetch

\* C20: the timeline entries a parser returns are in non-decreasing
\* order of their start offsets.
C20_TimelineOrdered ==
  pc = "parsed" =>
    \A i, j \in 1..Len(parsed.timeline) :
      i < j => parsed.timeline[i].startMs <= parsed.timeline[j].startMs

\* C21: the three parsers, each on its own serialization of the same
\* captions, return equal texts and timelines of equal length.
C21_FormatInvariant ==
  pc = "parsed" =>
    \A c \in Contents, n \in {"xml", "json3", "vtt"} :
      (parser = n /\ raw = Serialized(n, c)) =>
        \A m \in {"xml", "json3", "vtt"} :
          /\ ParsedAs(m, c).text = parsed.text
          /\ Len(ParsedAs(m, c).timeline) = Len(parsed.timeline)

\* C22: a payload of the header and one cue, whose timing line is
\* followed by one or more text lines and a blank line, parses to exactly
\* one entry; its text is the cue's lines joined by spaces without their
\* tags; its label is the start truncated to whole seconds, h:mm:ss for an
\* hh:mm:ss.mmm start with hours > 0 and m:ss for an mm:ss.mmm start.
C22_CueGivesOneSegment ==
  (pc = "parsed" /\ parser = "vtt") =>
    \A s \in VttStarts, x \in VttTexts :
      raw.lines = <<HeaderLine, BlankLine, TimingLine(s)>> \o x
                    \o <<BlankLine>>
      => /\ Len(parsed.timeline) = 1
         /\ parsed.timeline[1].text =
              StripTags(JoinWith([k \in 1..Len(x) |-> Trim(x[k])], <<" ">>))
         /\ (Len(s) = 9 \/ TimecodeMs(s) >= 3600000) =>
              parsed.timeline[1].time = WholeSecondsLabel(TimecodeMs(s))

\* the cue 01:02:03.400 with the lines "b" and " c"
C22_Witness ==
  /\ pc = "parsed"
  /\ parser = "vtt"
  /\ raw.lines =
       <<HeaderLine, BlankLine,
         TimingLine(<<"0","1",":","0","2",":","0","3",".","4","0","0">>),
         <<"b">>, <<" ","c">>, BlankLine>>
  /\ Len(parsed.timeline) = 1
  /\ parsed.timeline[1].time = <<"1",":","0","2",":","0","3">>
  /\ parsed.timeline[1].text = <<"b"," ","c">>

\* C23: once the caller has cancelled, no step issues an upstream fetch.
C23_NoFetchAfterCancel == [][cancelled => log' = log]_vars

\* C24: a fetch is issued only while no fetch of the run is outstanding,
\* and it is then the only outstanding one.
C24_OneFetchAtATime ==
  [][log' # log =>
       /\ inflight = NoReq
       /\ inflight' # NoReq
       /\ log' = Append(log, inflight')]_vars

\* a second fetch is outstanding after the first has completed
C24_Witness ==
  /\ Len(log) >= 2
  /\ inflight = log[Len(log)]
  /\ lastOutcome # "none"

\* C29: a run of the player-API pipeline has issued at most 15 + 2n
\* fetches, n the number of tracks of the listing, and, every fetch
\* completing, it ends, with an accepted transcript or with the error of
\* fetchYouTubeTranscript.
C29_BoundedFetches ==
  /\ [](variant = "player" => Len(log) <= 15 + 2 * Len(listed))
  /\ (variant = "player" /\ pc = "watch") ~>
       (pc = "done" /\ (outcome = "accepted"
                          \/ response.error = MsgCouldNotFetch))

\* every candidate was fetched: 15 + 2n requests with n = MaxListed
C29_Witness ==
  /\ variant = "player"
  /\ pc = "done"
  /\ Len(listed) = MaxListed
  /\ Len(log) = 15 + 2 * MaxListed
  /\ thrown = MsgNoCaptions

\* first match wins: WEBVTT at the start, then "events", then timed XML
SignatureParse(p) ==
  CASE p.startsVtt -> parseVttTranscript(p)
    [] ~p.startsVtt /\ p.hasEvents -> parseJson3Transcript(p)
    [] OTHER -> parseXmlTranscript(p)

\* a step that ends the awaited fetch of a caption payload with a success
\* status, in the player-API pipeline
PayloadArrivesAt(pcs) ==
  /\ variant = "player"
  /\ mock.on
  /\ pc \in pcs
  /\ inflight # NoReq
  /\ inflight' = NoReq
  /\ Upstream(inflight).kind = "ok"

RECURSIVE IsPrefix(_, _)
IsPrefix(a, b) ==
  IF a = <<>> THEN TRUE
  ELSE IF b = <<>> THEN FALSE
  ELSE Head(a) = Head(b) /\ IsPrefix(Tail(a), Tail(b))

C27_SameDecisionEverywhere ==
  [][PayloadArrivesAt({"caption", "attempts", "listed"}) =>
       (outcome' = "accepted"
          <=> Accepted(SignatureParse(Upstream(inflight).body)))]_vars

\* C28: a success response of get-youtube-captions carries a non-empty
\* text and at least one timeline entry; every other response has an
\* error message and a status outside 200..299.
C28_SuccessHasTranscript ==
  pc = "answered" =>
    IF response.error = ""
    THEN /\ response.transcript > 0
         /\ Len(response.timeline) >= 1
    ELSE response.status \notin 200..299

\* C30: the client invokes extract-youtube-transcript only as its second
\* call, after get-youtube-captions has answered with an error or without
\* text; a run in which both calls failed throws the one generic error
\* and returns no text.
C30_FallbackOnlyAfterFailure ==
  [][/\ (log' # log /\ log'[Len(log')].ep = FnExtract) =>
          /\ Len(log) = 1
          /\ log[1].ep = FnCaptions
          /\ inflight = NoReq
          /\ (response.status \notin 200..299 \/ response.transcript = 0)
     /\ (pc' = "returned" /\ outcome' = "failed") =>
          /\ Len(log') = 2
          /\ thrown' = MsgBothFailed
          /\ result' = EmptyTranscript
     /\ (pc' = "returned" /\ outcome' = "accepted") =>
          /\ thrown' = ""
          /\ result'.text > 0]_vars

\* the second function was invoked after the first answered without text,
\* and it failed as well
C30_Witness ==
  /\ pc = "returned"
  /\ outcome = "failed"
  /\ Len(log) = 2
  /\ log[2].ep = FnExtract
  /\ thrown = MsgBothFailed
  /\ result = EmptyTranscript

====
